---- MODULE Spec2Model ----
(***************************************************************************)
(* TinyNav API router (functions/api/links.ts, handleApi): session-cookie  *)
(* authentication with per-IP login backoff, and the CRUD handlers that    *)
(* load, rewrite, normalize and save the single bookmark document.         *)
(*                                                                         *)
(* A handler is split where the code awaits the store: a request that      *)
(* passes the auth gate and body parsing loads the document (the Begin     *)
(* step) and later mutates, normalizes and saves it (its Finish step).     *)
(* Text fields that no handler branches on (name, title, url, icon,        *)
(* description) are not carried in the modelled entities.                  *)
(***************************************************************************)
EXTENDS Integers, Sequences, FiniteSets, TLC

\* ---- bounds of the model ----
MaxOrder == 2        \* order values are 0..MaxOrder
MaxFails == 12       \* stored failure counts are 0..MaxFails
MaxTicks == 2        \* the clock advances at most MaxTicks times
TickSeconds == 345600 \* seconds the clock advances per tick (4 days)
NumProcs == 2        \* requests that can be in flight together
MaxRequests == 2     \* admin requests that reach loadData in one behaviour

\* ---- program constants ----
SESSION_DAYS == 7
PenaltyCap == 8000
PenaltyStep == 700
MaxGroupName == 64
MaxSectionName == 60
MaxLinkTitle == 80

GroupIds == {"g1", "g2"}
SectionIds == {"s1", "s2"}
LinkIds == {"l1", "l2"}
IPs == {"ipA", "ipB"}

None == "none"      \* JavaScript undefined
Absent == "absent"  \* key not present in the parsed body
Null == "null"      \* JSON null
Orders == 0..MaxOrder

Max(a, b) == IF a >= b THEN a ELSE b
Min(a, b) == IF a <= b THEN a ELSE b

Range(s) == {s[i] : i \in 1..Len(s)}
Ids(s) == {s[i].id : i \in 1..Len(s)}
MaxOf(S) == CHOOSE m \in S : \A x \in S : x <= m

RECURSIVE Filter(_, _)
Filter(s, keep) ==
  IF s = <<>> THEN <<>>
  ELSE IF Head(s) \in keep THEN <<Head(s)>> \o Filter(Tail(s), keep)
  ELSE Filter(Tail(s), keep)

\* Array.prototype.sort on order: stable, ties keep their relative position.
RECURSIVE InsertByOrder(_, _)
InsertByOrder(x, s) ==
  IF s = <<>> THEN <<x>>
  ELSE IF Head(s).order <= x.order THEN <<Head(s)>> \o InsertByOrder(x, Tail(s))
  ELSE <<x>> \o s

RECURSIVE SortByOrder(_)
SortByOrder(s) ==
  IF s = <<>> THEN <<>>
  ELSE InsertByOrder(s[Len(s)], SortByOrder(SubSeq(s, 1, Len(s) - 1)))

\* ---- the document ----
\* an image reference: how the string starts, and for a data: URL its media type
ImageRef(prefix, media) == [prefix |-> prefix, media |-> media]
NoImage == ImageRef("", "")
AbsentImage == ImageRef(Absent, "")

defaultSettings == [siteTitle |-> "TinyNav", siteIconDataUrl |-> NoImage, faviconDataUrl |-> NoImage]
SiteTitles == {"TinyNav", "Mine"}
SiteIcons == {ImageRef("data:", "image/png"), ImageRef("data:", "text/html"), ImageRef("ftp:", "")}
Favicons == {ImageRef("https:", ""), ImageRef("data:", "text/html")}

EmptyDoc == [settings |-> defaultSettings, groups |-> <<>>, sections |-> <<>>, links |-> <<>>]

\* a key of a parsed JSON object, or the default when the object lacks it
Field(obj, key, default) == IF key \in DOMAIN obj THEN obj[key] ELSE default

\* {...a, ...b}
Spread(a, b) == [k \in DOMAIN a \cup DOMAIN b |-> IF k \in DOMAIN b THEN b[k] ELSE a[k]]

normalizeSettings(s) ==
  [siteTitle |-> Field(s, "siteTitle", defaultSettings.siteTitle),
   siteIconDataUrl |-> Field(s, "siteIconDataUrl", defaultSettings.siteIconDataUrl),
   faviconDataUrl |-> Field(s, "faviconDataUrl", defaultSettings.faviconDataUrl)]

normalizeGroup(g) == [id |-> g.id, order |-> g.order, enabled |-> Field(g, "enabled", TRUE)]

\* Canonical shape: missing arrays empty, missing settings defaulted, a
\* group without enabled is enabled, arrays sorted by order, sections and
\* links that reference no existing group dropped.
normalizeData(d) ==
  LET gs == Field(d, "groups", <<>>)
      ss == Field(d, "sections", <<>>)
      ls == Field(d, "links", <<>>)
      groups == SortByOrder([i \in 1..Len(gs) |-> normalizeGroup(gs[i])])
      gids == Ids(groups)
  IN [settings |-> normalizeSettings(Field(d, "settings", defaultSettings)),
      groups |-> groups,
      sections |-> SortByOrder(Filter(ss, {x \in Range(ss) : x.groupId \in gids})),
      links |-> SortByOrder(Filter(ls, {l \in Range(ls) : l.groupId \in gids}))]

\* ---- auth ----
NoToken == [sub |-> "", iat |-> 0, exp |-> 0, sig |-> <<>>]
SessionTTL == SESSION_DAYS * 24 * 60 * 60

missingPassword(e) == e.PASSWORD = ""

getSessionSecret(e) == IF e.SESSION_SECRET # "" THEN e.SESSION_SECRET ELSE "derived:" \o e.PASSWORD

\* HMAC over the payload: the signature is determined by payload and key.
Hmac(sub, iat, exp, secret) == <<sub, iat, exp, secret>>

signSession(payload, secret) ==
  [sub |-> payload.sub, iat |-> payload.iat, exp |-> payload.exp,
   sig |-> Hmac(payload.sub, payload.iat, payload.exp, secret)]

\* TRUE when the token yields a payload: signature recomputed, expiry checked.
verifySession(token, secret, t) ==
  /\ token.sig = Hmac(token.sub, token.iat, token.exp, secret)
  /\ token.exp > t

requireAuth(cookie, e, t) ==
  IF missingPassword(e) THEN [ok |-> FALSE, status |-> 503]
  ELSE IF cookie = NoToken THEN [ok |-> FALSE, status |-> 401]
  ELSE IF verifySession(cookie, getSessionSecret(e), t) THEN [ok |-> TRUE, status |-> 200]
  ELSE [ok |-> FALSE, status |-> 401]

\* mutant: the penalty without its cap
Penalty_NoCap(fails) == PenaltyStep + fails * PenaltyStep

Penalty(fails) == Min(PenaltyCap, PenaltyStep + fails * PenaltyStep)

\* mutant: a failure stores 1 whatever the count was
nextFails_One(fails) == 1

\* the count a wrong password stores
nextFails(fails) == fails + 1

\* mutant: the lifetime computed in minutes
sessionExp_Minutes(t) == t + SESSION_DAYS * 24 * 60

\* exp of a session that starts at t
sessionExp(t) == t + SESSION_DAYS * 24 * 60 * 60

\* ---- URLs ----
\* A URL string as the fields new URL() reads from it: scheme "" when the
\* string has no "scheme://" prefix, host as its characters, wellFormed
\* whether new URL() accepts the string once it has a scheme.
Url(scheme, user, password, host, wellFormed) ==
  [scheme |-> scheme, user |-> user, password |-> password, host |-> host,
   wellFormed |-> wellFormed]

EmptyUrl == Url("", "", "", <<>>, FALSE)
AbsentUrl == Url(Absent, "", "", <<>>, FALSE)

HostExample == <<"a", ".", "i", "o">>
OkUrl == Url("https", "", "", HostExample, TRUE)
BareUrl == Url("", "", "", HostExample, TRUE)
FtpUrl == Url("ftp", "", "", HostExample, TRUE)
BrokenUrl == Url("https", "", "", <<>>, FALSE)

normalizeHttpUrl(s) ==
  IF s = EmptyUrl THEN s
  ELSE IF s.scheme # "" THEN s
  ELSE [s EXCEPT !.scheme = "https"]

\* the refine of HttpUrl and IconUrl: new URL(s) succeeds with protocol http: or https:
IsHttpUrl(s) == s.wellFormed /\ s.scheme \in {"http", "https"}

HttpUrl(s) == s # AbsentUrl /\ s # EmptyUrl /\ IsHttpUrl(normalizeHttpUrl(s))

IconUrl(s) == s = AbsentUrl \/ s = EmptyUrl \/ IsHttpUrl(normalizeHttpUrl(s))

\* ---- document handlers: loaded document and parsed request to outcome ----
Outcome(status, save, doc, id, order) ==
  [status |-> status, save |-> save, doc |-> doc, id |-> id, order |-> order]

NotFound(d) == Outcome(404, FALSE, d, None, -1)

\* findIndex: first position holding the id, 0 when there is none
IndexOf(s, id) ==
  IF id \in Ids(s) THEN CHOOSE i \in 1..Len(s) : s[i].id = id /\ \A j \in 1..(i - 1) : s[j].id # id
  ELSE 0

NextOrder(bucket) == IF bucket = {} THEN 0 ELSE MaxOf({x.order : x \in bucket}) + 1

\* (l.sectionId?.trim() || undefined)
SectionOf(l) == l.sectionId

PostGroups(d, req) ==
  LET nextOrder == NextOrder(Range(d.groups))
      group == [id |-> req.newId, order |-> nextOrder, enabled |-> TRUE]
  IN Outcome(200, TRUE, normalizeData([d EXCEPT !.groups = Append(@, group)]), group.id, nextOrder)

PutGroup(d, req) ==
  LET idx == IndexOf(d.groups, req.id)
  IN IF idx = 0 THEN NotFound(d)
     ELSE LET g == d.groups[idx]
              patched == IF req.enabled = Absent THEN g ELSE [g EXCEPT !.enabled = (req.enabled = "true")]
          IN Outcome(200, TRUE, normalizeData([d EXCEPT !.groups[idx] = patched]), req.id, g.order)

\* mutant: the link filter keeps the deleted group's links instead of the others
DeleteGroup_LinksInverted(d, req) ==
  LET groups == Filter(d.groups, {g \in Range(d.groups) : g.id # req.id})
  IN IF Len(groups) = Len(d.groups) THEN NotFound(d)
     ELSE LET links == Filter(d.links, {l \in Range(d.links) : l.groupId = req.id})
              sections == Filter(d.sections, {s \in Range(d.sections) : s.groupId # req.id})
          IN Outcome(200, TRUE,
                     normalizeData([d EXCEPT !.groups = groups, !.sections = sections, !.links = links]),
                     req.id, -1)

DeleteGroup(d, req) ==
  LET groups == Filter(d.groups, {g \in Range(d.groups) : g.id # req.id})
  IN IF Len(groups) = Len(d.groups) THEN NotFound(d)
     ELSE LET links == Filter(d.links, {l \in Range(d.links) : l.groupId # req.id})
              sections == Filter(d.sections, {s \in Range(d.sections) : s.groupId # req.id})
          IN Outcome(200, TRUE,
                     normalizeData([d EXCEPT !.groups = groups, !.sections = sections, !.links = links]),
                     req.id, -1)

PostSections(d, req) ==
  IF req.groupId \notin Ids(d.groups) THEN NotFound(d)
  ELSE LET inGroup == {s \in Range(d.sections) : s.groupId = req.groupId}
           nextOrder == NextOrder(inGroup)
           section == [id |-> req.newId, groupId |-> req.groupId, order |-> nextOrder]
       IN Outcome(200, TRUE, normalizeData([d EXCEPT !.sections = Append(@, section)]), section.id, nextOrder)

PutSection(d, req) ==
  LET idx == IndexOf(d.sections, req.id)
  IN IF idx = 0 THEN NotFound(d)
     ELSE LET s == d.sections[idx]
              patched == IF req.order \in Orders THEN [s EXCEPT !.order = req.order] ELSE s
          IN Outcome(200, TRUE, normalizeData([d EXCEPT !.sections[idx] = patched]), req.id, patched.order)

\* mutant: the section's links are deleted with it
DeleteSection_Cascade(d, req) ==
  IF req.id \notin Ids(d.sections) THEN NotFound(d)
  ELSE LET nextSections == Filter(d.sections, {s \in Range(d.sections) : s.id # req.id})
           nextLinks == Filter(d.links, {l \in Range(d.links) : l.sectionId # req.id})
       IN Outcome(200, TRUE, normalizeData([d EXCEPT !.sections = nextSections, !.links = nextLinks]),
                  req.id, -1)

DeleteSection(d, req) ==
  IF req.id \notin Ids(d.sections) THEN NotFound(d)
  ELSE LET nextSections == Filter(d.sections, {s \in Range(d.sections) : s.id # req.id})
           nextLinks == [i \in 1..Len(d.links) |->
                           IF d.links[i].sectionId = req.id
                           THEN [d.links[i] EXCEPT !.sectionId = None] ELSE d.links[i]]
       IN Outcome(200, TRUE, normalizeData([d EXCEPT !.sections = nextSections, !.links = nextLinks]),
                  req.id, -1)

\* the section id when it names a section of that group, undefined otherwise
ValidSection(d, raw, groupId) ==
  IF raw \in SectionIds /\ \E s \in Range(d.sections) : s.id = raw /\ s.groupId = groupId
  THEN raw ELSE None

\* mutant: the next order is the size of the bucket
PostLinks_CountOrder(d, req) ==
  IF req.groupId \notin Ids(d.groups) THEN NotFound(d)
  ELSE LET rawSectionId == IF req.sectionId \in SectionIds THEN req.sectionId ELSE None
           validSectionId == ValidSection(d, rawSectionId, req.groupId)
           inBucket == {l \in Range(d.links) : l.groupId = req.groupId /\ SectionOf(l) = validSectionId}
           nextOrder == Cardinality(inBucket)
           link == [id |-> req.newId, groupId |-> req.groupId, sectionId |-> validSectionId,
                    order |-> nextOrder]
       IN Outcome(200, TRUE, normalizeData([d EXCEPT !.links = Append(@, link)]), link.id, nextOrder)

PostLinks(d, req) ==
  IF req.groupId \notin Ids(d.groups) THEN NotFound(d)
  ELSE LET rawSectionId == IF req.sectionId \in SectionIds THEN req.sectionId ELSE None
           validSectionId == ValidSection(d, rawSectionId, req.groupId)
           inBucket == {l \in Range(d.links) : l.groupId = req.groupId /\ SectionOf(l) = validSectionId}
           nextOrder == NextOrder(inBucket)
           link == [id |-> req.newId, groupId |-> req.groupId, sectionId |-> validSectionId,
                    order |-> nextOrder]
       IN Outcome(200, TRUE, normalizeData([d EXCEPT !.links = Append(@, link)]), link.id, nextOrder)

\* mutant: the target group of a link update is not looked up
PutLink_NoGroupCheck(d, req) ==
  LET idx == IndexOf(d.links, req.id)
  IN IF idx = 0 THEN NotFound(d)
     ELSE LET current == d.links[idx]
              nextGroupId == IF req.groupId = Absent THEN current.groupId ELSE req.groupId
              link == [current EXCEPT !.groupId = nextGroupId]
          IN Outcome(200, TRUE, normalizeData([d EXCEPT !.links[idx] = link]), req.id, current.order)

\* mutant: a link that changes bucket keeps the order it had
PutLink_KeepOrder(d, req) ==
  LET idx == IndexOf(d.links, req.id)
  IN IF idx = 0 THEN NotFound(d)
     ELSE LET current == d.links[idx]
              nextGroupId == IF req.groupId = Absent THEN current.groupId ELSE req.groupId
          IN IF nextGroupId \notin Ids(d.groups) THEN NotFound(d)
             ELSE LET rawSectionId == IF req.sectionId \in SectionIds THEN req.sectionId ELSE None
                      nextSectionId == ValidSection(d, rawSectionId, nextGroupId)
                      link == [id |-> current.id, groupId |-> nextGroupId,
                               sectionId |-> nextSectionId, order |-> current.order]
                  IN Outcome(200, TRUE, normalizeData([d EXCEPT !.links[idx] = link]), req.id, current.order)

PutLink(d, req) ==
  LET idx == IndexOf(d.links, req.id)
  IN IF idx = 0 THEN NotFound(d)
     ELSE LET current == d.links[idx]
              nextGroupId == IF req.groupId = Absent THEN current.groupId ELSE req.groupId
          IN IF nextGroupId \notin Ids(d.groups) THEN NotFound(d)
             ELSE LET rawSectionId == IF req.sectionId \in SectionIds THEN req.sectionId ELSE None
                      nextSectionId == ValidSection(d, rawSectionId, nextGroupId)
                      movedBucket == nextGroupId # current.groupId \/ nextSectionId # SectionOf(current)
                      bucket == {l \in Range(d.links) :
                                   l.groupId = nextGroupId /\ SectionOf(l) = nextSectionId}
                      nextOrder == IF ~movedBucket THEN current.order ELSE NextOrder(bucket)
                      link == [id |-> current.id, groupId |-> nextGroupId,
                               sectionId |-> nextSectionId, order |-> nextOrder]
                  IN Outcome(200, TRUE, normalizeData([d EXCEPT !.links[idx] = link]), req.id, nextOrder)

DeleteLink(d, req) ==
  LET links == Filter(d.links, {l \in Range(d.links) : l.id # req.id})
  IN IF Len(links) = Len(d.links) THEN NotFound(d)
     ELSE Outcome(200, TRUE, normalizeData([d EXCEPT !.links = links]), req.id, -1)

\* groupPatch / sectionPatch / linkPatch are the Maps built from the body:
\* functions from the ids named in the body to their last entry.
ReorderApply(d, gp, sp, lp) ==
  LET groups == [i \in 1..Len(d.groups) |->
                   IF d.groups[i].id \in DOMAIN gp
                   THEN [d.groups[i] EXCEPT !.order = gp[d.groups[i].id]] ELSE d.groups[i]]
      sections == [i \in 1..Len(d.sections) |->
                     IF d.sections[i].id \in DOMAIN sp
                     THEN [d.sections[i] EXCEPT !.order = sp[d.sections[i].id]] ELSE d.sections[i]]
      links == [i \in 1..Len(d.links) |->
                  LET l == d.links[i]
                  IN IF l.id \notin DOMAIN lp THEN l
                     ELSE LET p == lp[l.id]
                              nextGroupId == IF p.groupId = Absent THEN l.groupId ELSE p.groupId
                              nextSectionId == IF p.sectionId \in SectionIds THEN p.sectionId ELSE None
                          IN [l EXCEPT !.groupId = nextGroupId, !.sectionId = nextSectionId,
                                       !.order = p.order]]
  IN [d EXCEPT !.groups = groups, !.sections = sections, !.links = links]

\* mutant: the reordered document is saved without normalization
PostReorder_NoNormalize(d, req) ==
  Outcome(200, TRUE, ReorderApply(d, req.gp, req.sp, req.lp), None, -1)

PostReorder(d, req) ==
  Outcome(200, TRUE, normalizeData(ReorderApply(d, req.gp, req.sp, req.lp)), None, -1)

\* empty, data:image/..., or a URL with protocol http: or https:
validateImageRefOrEmpty(v) ==
  IF v = NoImage THEN TRUE
  ELSE IF v.prefix = "data:" THEN v.media \in {"image/png", "image/svg+xml"}
  ELSE v.prefix \in {"http:", "https:"}

\* mutant: a field the patch lacks goes back to its default
PatchSettings_Replace(current, req) ==
  [siteTitle |-> IF req.siteTitle = Absent THEN defaultSettings.siteTitle ELSE req.siteTitle,
   siteIconDataUrl |-> IF req.siteIcon = AbsentImage THEN NoImage ELSE req.siteIcon,
   faviconDataUrl |-> IF req.favicon = AbsentImage THEN NoImage ELSE req.favicon]

\* the settings with the fields of the patch written over them
\* (siteSubtitle, homeTagline and siteIconFit go the way of siteTitle)
PatchSettings(current, req) ==
  [siteTitle |-> IF req.siteTitle = Absent THEN current.siteTitle ELSE req.siteTitle,
   siteIconDataUrl |-> IF req.siteIcon = AbsentImage THEN current.siteIconDataUrl ELSE req.siteIcon,
   faviconDataUrl |-> IF req.favicon = AbsentImage THEN current.faviconDataUrl ELSE req.favicon]

\* mutant: the stored document is written back with the new settings only
PutSettings_NoNormalize(d, req) ==
  LET current == normalizeSettings(Field(d, "settings", defaultSettings))
      next == normalizeSettings(PatchSettings(current, req))
  IN IF ~validateImageRefOrEmpty(next.siteIconDataUrl) THEN Outcome(400, FALSE, d, None, -1)
     ELSE IF ~validateImageRefOrEmpty(next.faviconDataUrl) THEN Outcome(400, FALSE, d, None, -1)
     ELSE Outcome(200, TRUE, Spread(d, [settings |-> next]), None, -1)

PutSettings(d, req) ==
  LET data == normalizeData(d)
      current == normalizeSettings(data.settings)
      next == normalizeSettings(PatchSettings(current, req))
  IN IF ~validateImageRefOrEmpty(next.siteIconDataUrl) THEN Outcome(400, FALSE, d, None, -1)
     ELSE IF ~validateImageRefOrEmpty(next.faviconDataUrl) THEN Outcome(400, FALSE, d, None, -1)
     ELSE Outcome(200, TRUE, normalizeData([data EXCEPT !.settings = next]), None, -1)

\* mutant: the merged document is saved as it is
PostSave_NoNormalize(d, req) ==
  LET body == req.body
      keys == {"groups", "links"} \cup (IF body.hasSettings THEN {"settings"} ELSE {})
                                  \cup (IF body.hasSections THEN {"sections"} ELSE {})
  IN Outcome(200, TRUE, Spread(d, [k \in keys |-> body[k]]), None, -1)

\* body.groups and body.links replace the stored arrays; settings and
\* sections are taken from the body when it carries them.
PostSave(d, req) ==
  LET body == req.body
      keys == {"groups", "links"} \cup (IF body.hasSettings THEN {"settings"} ELSE {})
                                  \cup (IF body.hasSections THEN {"sections"} ELSE {})
      merged == Spread(d, [k \in keys |-> body[k]])
  IN Outcome(200, TRUE, normalizeData(merged), None, -1)

GetSettings(d, req) == Outcome(200, FALSE, normalizeData(d), None, -1)

\* the handler a route selects
Handle(d, req) ==
  CASE req.route = "POST groups" -> PostGroups(d, req)
    [] req.route = "PUT group" -> PutGroup(d, req)
    [] req.route = "DELETE group" -> DeleteGroup(d, req)
    [] req.route = "POST sections" -> PostSections(d, req)
    [] req.route = "PUT section" -> PutSection(d, req)
    [] req.route = "DELETE section" -> DeleteSection(d, req)
    [] req.route = "POST links" -> PostLinks(d, req)
    [] req.route = "PUT link" -> PutLink(d, req)
    [] req.route = "DELETE link" -> DeleteLink(d, req)
    [] req.route = "POST reorder" -> PostReorder(d, req)
    [] req.route = "GET settings" -> GetSettings(d, req)
    [] req.route = "PUT settings" -> PutSettings(d, req)
    [] req.route = "POST save" -> PostSave(d, req)

\* ---- login failure store (one record per client IP) ----
getLoginFail(store, ip) == IF ip \in DOMAIN store THEN store[ip].fails ELSE 0

putLoginFail(store, ip, rec) ==
  [x \in (DOMAIN store) \cup {ip} |-> IF x = ip THEN rec ELSE store[x]]

deleteLoginFail(store, ip) == [x \in (DOMAIN store) \ {ip} |-> store[x]]

\* ---- requests ----
EmptyBody == [groups |-> <<>>, links |-> <<>>, sections |-> <<>>, hasSections |-> FALSE,
              settings |-> defaultSettings, hasSettings |-> FALSE]

BaseReq == [route |-> "", valid |-> TRUE, id |-> None, groupId |-> Absent, sectionId |-> Absent,
            order |-> -1, enabled |-> Absent, newId |-> None, gp |-> <<>>, sp |-> <<>>, lp |-> <<>>,
            siteTitle |-> Absent, body |-> EmptyBody, ip |-> None, password |-> "",
            nameLen |-> 1, url |-> OkUrl, icon |-> AbsentUrl, siteIcon |-> AbsentImage,
            favicon |-> AbsentImage]

NoPatch == <<>>

\* reorder bodies carry at most one entry per entity kind
GroupPatches == {NoPatch} \cup {[x \in {id} |-> o] : id \in GroupIds, o \in Orders}
SectionPatches == {NoPatch} \cup {[x \in {id} |-> o] : id \in SectionIds, o \in Orders}
LinkEntries == [order : Orders, groupId : {Absent} \cup GroupIds,
                sectionId : {Absent, Null} \cup SectionIds]
LinkMoves == {e \in LinkEntries : e.groupId # Absent /\ e.sectionId = Absent}
LinkPatchesOf(entries) == {[x \in {id} |-> e] : id \in LinkIds, e \in entries}

ReorderBodies ==
  {<<gp, NoPatch, NoPatch>> : gp \in GroupPatches}
  \cup {<<NoPatch, sp, NoPatch>> : sp \in SectionPatches}
  \cup {<<NoPatch, NoPatch, lp>> : lp \in LinkPatchesOf(LinkEntries)}

\* bodies that carry a group entry together with a link entry
MixedBodies ==
  {<<gp, NoPatch, lp>> : gp \in GroupPatches \ {NoPatch}, lp \in LinkPatchesOf(LinkMoves)}

\* bodies of the legacy save: a well-formed document, one with a section and
\* a link that reference no group of the body, and one without sections.
LegacyBodies ==
  {[EmptyBody EXCEPT !.groups = <<[id |-> "g1", order |-> 1, enabled |-> TRUE]>>,
                     !.links = <<[id |-> "l1", groupId |-> "g1", sectionId |-> None, order |-> 0]>>,
                     !.sections = <<[id |-> "s1", groupId |-> "g1", order |-> 0]>>,
                     !.hasSections = TRUE],
   [EmptyBody EXCEPT !.groups = <<[id |-> "g2", order |-> 0, enabled |-> FALSE]>>,
                     !.links = <<[id |-> "l1", groupId |-> "g1", sectionId |-> None, order |-> 1],
                                 [id |-> "l2", groupId |-> "g2", sectionId |-> None, order |-> 0]>>,
                     !.sections = <<[id |-> "s2", groupId |-> "g1", order |-> 0]>>,
                     !.hasSections = TRUE,
                     !.settings = [defaultSettings EXCEPT !.siteTitle = "Mine"], !.hasSettings = TRUE],
   [EmptyBody EXCEPT !.groups = <<[id |-> "g2", order |-> 0, enabled |-> TRUE]>>]}

BodyRoutes == {"POST groups", "PUT group", "POST sections", "PUT section", "POST links",
               "PUT link", "POST reorder", "PUT settings", "POST save"}
AdminRoutes == BodyRoutes \cup {"DELETE group", "DELETE section", "DELETE link", "GET settings"}

\* ---- body schemas ----
\* nameLen is the length of the trimmed name or title, NoName when the body has none
NoName == -1
\* order when the body has none
NoOrder == -1
\* an order that is negative or not an integer
BadOrder == -2

NameOk(n, max) == n >= 1 /\ n <= max
OptNameOk(n, max) == n = NoName \/ NameOk(n, max)
OrderOk(o) == o >= 0
IdOk(id) == id # Absent /\ id # Null /\ id # ""

CreateGroupBody(req) == NameOk(req.nameLen, MaxGroupName)

\* mutant: the schema without its refine, so that an empty patch passes
UpdateGroupBody_NoRefine(req) ==
  /\ OptNameOk(req.nameLen, MaxGroupName)
  /\ req.enabled \in {Absent, "true", "false"}

UpdateGroupBody(req) ==
  /\ OptNameOk(req.nameLen, MaxGroupName)
  /\ req.enabled \in {Absent, "true", "false"}
  /\ ~(req.nameLen = NoName /\ req.enabled = Absent)

CreateSectionBody(req) == IdOk(req.groupId) /\ NameOk(req.nameLen, MaxSectionName)

UpdateSectionBody(req) ==
  /\ OptNameOk(req.nameLen, MaxSectionName)
  /\ req.order = NoOrder \/ OrderOk(req.order)
  /\ ~(req.nameLen = NoName /\ req.order = NoOrder)

CreateLinkBody(req) ==
  /\ IdOk(req.groupId)
  /\ req.sectionId = Absent \/ IdOk(req.sectionId)
  /\ NameOk(req.nameLen, MaxLinkTitle)
  /\ HttpUrl(req.url)
  /\ IconUrl(req.icon)

UpdateLinkBody(req) ==
  /\ req.groupId = Absent \/ IdOk(req.groupId)
  /\ req.sectionId \in {Absent, Null} \/ IdOk(req.sectionId)
  /\ OptNameOk(req.nameLen, MaxLinkTitle)
  /\ req.url = AbsentUrl \/ HttpUrl(req.url)
  /\ IconUrl(req.icon)
  /\ ~(/\ req.groupId = Absent /\ req.sectionId = Absent /\ req.nameLen = NoName
       /\ req.url = AbsentUrl /\ req.icon = AbsentUrl)

ReorderBody(req) ==
  /\ \A id \in DOMAIN req.gp : IdOk(id) /\ OrderOk(req.gp[id])
  /\ \A id \in DOMAIN req.sp : IdOk(id) /\ OrderOk(req.sp[id])
  /\ \A id \in DOMAIN req.lp :
       /\ IdOk(id) /\ OrderOk(req.lp[id].order)
       /\ req.lp[id].groupId = Absent \/ IdOk(req.lp[id].groupId)
       /\ req.lp[id].sectionId \in {Absent, Null} \/ IdOk(req.lp[id].sectionId)

SettingsPatch(req) == req.siteTitle = Absent \/ req.siteTitle # ""

FetchTitleBody(req) == HttpUrl(req.url)

\* the body parses as JSON and passes the schema of its route
SchemaOk(req) ==
  /\ req.valid
  /\ CASE req.route = "POST groups" -> CreateGroupBody(req)
       [] req.route = "PUT group" -> UpdateGroupBody(req)
       [] req.route = "POST sections" -> CreateSectionBody(req)
       [] req.route = "PUT section" -> UpdateSectionBody(req)
       [] req.route = "POST links" -> CreateLinkBody(req)
       [] req.route = "PUT link" -> UpdateLinkBody(req)
       [] req.route = "POST reorder" -> ReorderBody(req)
       [] req.route = "PUT settings" -> SettingsPatch(req)
       [] req.route = "POST fetch-title" -> FetchTitleBody(req)
       [] OTHER -> TRUE

\* every id a document holds or refers to: crypto.randomUUID() returns none of them
UsedIds(d) ==
  Ids(d.groups) \cup Ids(d.sections) \cup Ids(d.links)
  \cup {x.groupId : x \in Range(d.sections) \cup Range(d.links)}
  \cup {l.sectionId : l \in Range(d.links)}

R(route) == [BaseReq EXCEPT !.route = route]

\* requests that fail their schema or match no route
BadRequests == {[R(r) EXCEPT !.valid = FALSE] : r \in BodyRoutes} \cup {R("GET other")}

Reorders(bodies) == {[R("POST reorder") EXCEPT !.gp = b[1], !.sp = b[2], !.lp = b[3]] : b \in bodies}

\* requests whose JSON body fails the schema of its route: a missing field,
\* a length out of bounds, a URL that is not http(s), an empty patch, an
\* order that is negative or not an integer
SchemaFailures ==
  {[R("POST groups") EXCEPT !.nameLen = n] : n \in {NoName, 0, MaxGroupName + 1}}
  \cup {[R("PUT group") EXCEPT !.id = "g1", !.nameLen = NoName],
        [R("PUT group") EXCEPT !.id = "g1", !.nameLen = MaxGroupName + 1, !.enabled = "true"],
        [R("PUT group") EXCEPT !.id = "g1", !.enabled = "yes"]}
  \cup {[R("POST sections") EXCEPT !.groupId = "g1", !.nameLen = MaxSectionName + 1],
        [R("POST sections") EXCEPT !.groupId = Absent],
        [R("POST sections") EXCEPT !.groupId = "g1", !.nameLen = 0]}
  \cup {[R("PUT section") EXCEPT !.id = "s1", !.nameLen = NoName],
        [R("PUT section") EXCEPT !.id = "s1", !.order = BadOrder]}
  \cup {[R("POST links") EXCEPT !.groupId = "g1", !.url = u] : u \in {AbsentUrl, EmptyUrl, FtpUrl, BrokenUrl}}
  \cup {[R("POST links") EXCEPT !.groupId = "g1", !.nameLen = MaxLinkTitle + 1],
        [R("POST links") EXCEPT !.groupId = "g1", !.sectionId = Null],
        [R("POST links") EXCEPT !.groupId = "g1", !.icon = FtpUrl]}
  \cup {[R("PUT link") EXCEPT !.id = "l1", !.nameLen = NoName, !.url = AbsentUrl],
        [R("PUT link") EXCEPT !.id = "l1", !.url = FtpUrl],
        [R("PUT link") EXCEPT !.id = "l1", !.sectionId = ""]}
  \cup Reorders({<<[x \in {"g1"} |-> BadOrder], NoPatch, NoPatch>>,
                 <<NoPatch, NoPatch, [x \in {"l1"} |-> [order |-> BadOrder, groupId |-> Absent,
                                                        sectionId |-> Absent]]>>})
  \cup {[R("PUT settings") EXCEPT !.siteTitle = ""]}

AdminRequests(used) ==
  {R("GET settings")}
  \cup {[R("POST groups") EXCEPT !.newId = n] : n \in GroupIds \ used}
  \cup {[R("PUT group") EXCEPT !.id = i, !.enabled = e] : i \in GroupIds, e \in {Absent, "true", "false"}}
  \cup {[R("DELETE group") EXCEPT !.id = i] : i \in GroupIds}
  \cup {[R("POST sections") EXCEPT !.groupId = g, !.newId = n] : g \in GroupIds, n \in SectionIds \ used}
  \cup {[R("PUT section") EXCEPT !.id = i, !.order = o] : i \in SectionIds, o \in {-1} \cup Orders}
  \cup {[R("DELETE section") EXCEPT !.id = i] : i \in SectionIds}
  \cup {[R("POST links") EXCEPT !.groupId = g, !.sectionId = s, !.newId = n] :
          g \in GroupIds, s \in {Absent} \cup SectionIds, n \in LinkIds \ used}
  \cup {[R("PUT link") EXCEPT !.id = i, !.groupId = g, !.sectionId = s] :
          i \in LinkIds, g \in {Absent} \cup GroupIds, s \in {Absent, Null} \cup SectionIds}
  \cup {[R("DELETE link") EXCEPT !.id = i] : i \in LinkIds}
  \cup Reorders(ReorderBodies)
  \cup {[R("PUT settings") EXCEPT !.siteTitle = t] : t \in {Absent} \cup SiteTitles}
  \cup {[R("PUT settings") EXCEPT !.siteIcon = i] : i \in SiteIcons}
  \cup {[R("PUT settings") EXCEPT !.favicon = i] : i \in Favicons}
  \cup {[R("POST save") EXCEPT !.body = b] : b \in LegacyBodies}

\* login bodies: unparseable JSON, no or blank password, wrong, right
BadJson == "<bad json>"
\* the body `null`: JSON that parses, to a value with no properties
NullBody == "<null>"
\* `body.password` on null
TypeError == -2
LoginBodies == {BadJson, "", "wrong", "pw"}

Envs == {[PASSWORD |-> "pw", SESSION_SECRET |-> ""], [PASSWORD |-> "", SESSION_SECRET |-> ""]}

\* ---- state ----
VARIABLES
  env,        \* PASSWORD and SESSION_SECRET of the deployment
  data,       \* the stored document (key cloudnav:data)
  loginFail,  \* the stored failure records, by client IP
  now,        \* the clock, in seconds
  issued,     \* session tokens the server has signed
  inflight,   \* per request slot: position in the handler and its locals
  resp,       \* the last response sent
  lastOp,     \* the last mutation saved: the bucket and order of a create
  served,     \* admin requests that have reached loadData
  reader      \* readTextUpTo: the body stream, its locals and its position

vars == <<env, data, loginFail, now, issued, inflight, resp, lastOp, served, reader>>

\* no response body is being read
NoReader == [pc |-> "none", stream |-> <<>>, limitBytes |-> 0, bytes |-> 0, decoded |-> 0,
             slice |-> 0, reads |-> 0, cancelled |-> FALSE]

Procs == 1..NumProcs
Idle == [pc |-> "idle", req |-> BaseReq, data |-> EmptyDoc, fails |-> 0, slept |-> 0]
AllIdle == \A q \in Procs : inflight[q].pc = "idle"

\* what the outbound fetch of fetch-title came back with
Upstream(kind, status, html, title) ==
  [kind |-> kind, status |-> status, html |-> html, title |-> title]
NoUpstream == Upstream("none", 0, FALSE, FALSE)

\* a response, with what the request carried: the kind of cookie, the password
NoResp == [route |-> "", status |-> 0, authed |-> "", setCookie |-> NoToken, maxAge |-> -1,
           id |-> None, order |-> -1, slept |-> 0, cookie |-> "", password |-> "",
           req |-> BaseReq, doc |-> EmptyDoc, stale |-> FALSE, threw |-> FALSE,
           fetched |-> FALSE, upstream |-> NoUpstream]
Resp(route, status) == [NoResp EXCEPT !.route = route, !.status = status]

NoOp == [kind |-> "none", groupId |-> None, sectionId |-> None, order |-> -1, run |-> 0]

Init ==
  /\ env \in Envs
  /\ data = EmptyDoc
  /\ loginFail = <<>>
  /\ now = 0
  /\ issued = {}
  /\ inflight = [p \in Procs |-> Idle]
  /\ resp = NoResp
  /\ lastOp = NoOp
  /\ served = 0
  /\ reader = NoReader

\* cookies a client can present: none, a token it was issued, an issued
\* token with its expiry or its signature altered, a token signed with a
\* key that is not the server's
Tampered(t) == {[t EXCEPT !.exp = @ + SessionTTL],
                [t EXCEPT !.sig = Hmac(t.sub, t.iat, t.exp, "guess")]}
Forged(t) == signSession([sub |-> "admin", iat |-> t, exp |-> t + SessionTTL], "guess")
Cookies == {NoToken} \cup issued \cup UNION {Tampered(t) : t \in issued} \cup {Forged(now)}

\* what the presented cookie is, by how the client came to hold it
KindOf(cookie) ==
  IF cookie = NoToken THEN "none"
  ELSE IF cookie \in issued THEN (IF cookie.exp > now THEN "valid" ELSE "expired")
  ELSE IF cookie \in UNION {Tampered(t) : t \in issued} THEN "tampered"
  ELSE "forged"

Respond(r) ==
  /\ resp' = r
  /\ UNCHANGED <<env, data, loginFail, now, issued, inflight, lastOp, served, reader>>

Tick ==
  /\ now < MaxTicks * TickSeconds
  /\ now' = now + TickSeconds
  /\ UNCHANGED <<env, data, loginFail, issued, inflight, resp, lastOp, served, reader>>

\* GET /api/links
GetLinks == Respond([Resp("GET links", 200) EXCEPT !.doc = normalizeData(data)])

\* mutant: a token that fails verification is answered without clearing the cookie
GetMe_NoClear(cookie) ==
  Respond([Resp("GET me", 200) EXCEPT
             !.cookie = KindOf(cookie),
             !.authed = IF cookie # NoToken /\ ~missingPassword(env)
                           /\ verifySession(cookie, getSessionSecret(env), now)
                        THEN "true" ELSE "false"])

\* mutant: the token is verified although no PASSWORD is configured
GetMe_NoPasswordCheck(cookie) ==
  LET r == [Resp("GET me", 200) EXCEPT !.cookie = KindOf(cookie)]
  IN Respond(IF cookie = NoToken THEN [r EXCEPT !.authed = "false"]
             ELSE IF verifySession(cookie, getSessionSecret(env), now)
                  THEN [r EXCEPT !.authed = "true"]
             ELSE [r EXCEPT !.authed = "false", !.maxAge = 0])

\* GET /api/me
GetMe(cookie) ==
  LET r == [Resp("GET me", 200) EXCEPT !.cookie = KindOf(cookie)]
  IN Respond(IF cookie = NoToken THEN [r EXCEPT !.authed = "false"]
             ELSE IF missingPassword(env) THEN [r EXCEPT !.authed = "false"]
             ELSE IF verifySession(cookie, getSessionSecret(env), now)
                  THEN [r EXCEPT !.authed = "true"]
             ELSE [r EXCEPT !.authed = "false", !.maxAge = 0])

\* mutant: logout ends the sessions by changing the signing secret
Logout_Revoke ==
  /\ resp' = [Resp("POST logout", 200) EXCEPT !.maxAge = 0]
  /\ env' = [env EXCEPT !.SESSION_SECRET = "rotated"]
  /\ UNCHANGED <<data, loginFail, now, issued, inflight, lastOp, served, reader>>

\* POST /api/logout
Logout == Respond([Resp("POST logout", 200) EXCEPT !.maxAge = 0])

\* POST /api/login up to the read of the failure record
LoginStart(p, ip, password) ==
  /\ inflight[p].pc = "idle"
  /\ LET serverPassword == env.PASSWORD
     IN IF serverPassword = ""
        THEN Respond([Resp("POST login", 503) EXCEPT !.password = password])
        ELSE LET fails == Max(0, getLoginFail(loginFail, ip))
             IN /\ fails < MaxFails
                /\ inflight' = [inflight EXCEPT ![p] =
                     [Idle EXCEPT !.pc = IF fails > 0 THEN "sleep" ELSE "read",
                                  !.req = [R("POST login") EXCEPT !.ip = ip, !.password = password],
                                  !.fails = fails]]
                /\ UNCHANGED <<env, data, loginFail, now, issued, resp, lastOp, served, reader>>

\* await sleep(penalty)
LoginSleep(p) ==
  /\ inflight[p].pc = "sleep"
  /\ inflight' = [inflight EXCEPT ![p].pc = "read", ![p].slept = Penalty(inflight[p].fails)]
  /\ UNCHANGED <<env, data, loginFail, now, issued, resp, lastOp, served, reader>>

\* mutant: a correct password removes the failure records of every IP
LoginFinish_ClearAll(p) ==
  /\ inflight[p].pc = "read"
  /\ LET ip == inflight[p].req.ip
         fails == inflight[p].fails
         provided == inflight[p].req.password
         base == [Resp("POST login", 200) EXCEPT !.slept = inflight[p].slept,
                                                   !.password = provided]
     IN IF provided = NullBody
        THEN \* readBodyJson either rejects a body that is no object, or
             \* returns the parsed null and line 351 reads a property of it
             /\ \/ resp' = [base EXCEPT !.status = 400]
                \/ resp' = [base EXCEPT !.status = TypeError, !.threw = TRUE]
             /\ UNCHANGED <<loginFail, issued>>
        ELSE IF provided = BadJson \/ provided = ""
        THEN /\ resp' = [base EXCEPT !.status = 400]
             /\ UNCHANGED <<loginFail, issued>>
        ELSE IF provided # env.PASSWORD
        THEN /\ loginFail' = putLoginFail(loginFail, ip, [fails |-> nextFails(fails)])
             /\ resp' = [base EXCEPT !.status = 401]
             /\ UNCHANGED issued
        ELSE LET exp == sessionExp(now)
                 token == signSession([sub |-> "admin", iat |-> now, exp |-> exp],
                                      getSessionSecret(env))
             IN /\ loginFail' = <<>>
                /\ issued' = issued \cup {token}
                /\ resp' = [base EXCEPT !.setCookie = token, !.maxAge = exp - now]
  /\ inflight' = [inflight EXCEPT ![p] = Idle]
  /\ UNCHANGED <<env, data, now, lastOp, served, reader>>

\* POST /api/login from the read of the body to the response
LoginFinish(p) ==
  /\ inflight[p].pc = "read"
  /\ LET ip == inflight[p].req.ip
         fails == inflight[p].fails
         provided == inflight[p].req.password
         base == [Resp("POST login", 200) EXCEPT !.slept = inflight[p].slept,
                                                   !.password = provided]
     IN IF provided = NullBody
        THEN \* readBodyJson either rejects a body that is no object, or
             \* returns the parsed null and line 351 reads a property of it
             /\ \/ resp' = [base EXCEPT !.status = 400]
                \/ resp' = [base EXCEPT !.status = TypeError, !.threw = TRUE]
             /\ UNCHANGED <<loginFail, issued>>
        ELSE IF provided = BadJson \/ provided = ""
        THEN /\ resp' = [base EXCEPT !.status = 400]
             /\ UNCHANGED <<loginFail, issued>>
        ELSE IF provided # env.PASSWORD
        THEN /\ loginFail' = putLoginFail(loginFail, ip, [fails |-> nextFails(fails)])
             /\ resp' = [base EXCEPT !.status = 401]
             /\ UNCHANGED issued
        ELSE LET exp == sessionExp(now)
                 token == signSession([sub |-> "admin", iat |-> now, exp |-> exp],
                                      getSessionSecret(env))
             IN /\ loginFail' = deleteLoginFail(loginFail, ip)
                /\ issued' = issued \cup {token}
                /\ resp' = [base EXCEPT !.setCookie = token, !.maxAge = exp - now]
  /\ inflight' = [inflight EXCEPT ![p] = Idle]
  /\ UNCHANGED <<env, data, now, lastOp, served, reader>>

\* ---- the :id segment of a path ----
\* "g%31" is g1 percent-encoded; in "%E0%A4%A" the last escape is cut short
EncodedId == "g%31"
MalformedId == "%E0%A4%A"
\* what PreLoad gives when the handler throws instead of answering
URIError == -1

IdRoutes == {"PUT group", "DELETE group", "PUT section", "DELETE section", "PUT link", "DELETE link"}

\* decodeURIComponent: the segment with its escapes replaced, URIError for a malformed escape
decodeURIComponent(seg) ==
  IF seg = MalformedId THEN [threw |-> TRUE, value |-> None]
  ELSE IF seg = EncodedId THEN [threw |-> FALSE, value |-> "g1"]
  ELSE [threw |-> FALSE, value |-> seg]

\* the request with the id its handler works with
Routed(req) ==
  IF req.route \in IdRoutes THEN [req EXCEPT !.id = decodeURIComponent(@).value] ELSE req

\* mutant: the body schema is checked before the auth gate
PreLoad_ParseFirst(cookie, req) ==
  LET auth == requireAuth(cookie, env, now)
  IN IF req.route \in BodyRoutes /\ ~SchemaOk(req) THEN 400
     ELSE IF ~auth.ok THEN auth.status
     ELSE IF req.route \notin AdminRoutes THEN 404
     ELSE 0

\* /api/admin/* before the document is loaded: the auth gate, then the
\* route and its body schema. The status answered, 0 to go on to loadData.
PreLoad(cookie, req) ==
  LET auth == requireAuth(cookie, env, now)
  IN IF ~auth.ok THEN auth.status
     ELSE IF req.route \in IdRoutes /\ decodeURIComponent(req.id).threw THEN URIError
     ELSE IF req.route \in BodyRoutes /\ ~SchemaOk(req) THEN 400
     ELSE IF req.route \notin AdminRoutes THEN 404
     ELSE 0

\* the answer given before the document is loaded; it carries the request
\* when the request got past the gate
Rejected(cookie, req, status) ==
  [Resp(req.route, IF status = URIError THEN 0 ELSE status) EXCEPT
                                  !.cookie = KindOf(cookie),
                                  !.threw = status = URIError,
                                  !.req = IF requireAuth(cookie, env, now).ok THEN req ELSE BaseReq]

\* ---- POST /api/admin/fetch-title ----
\* hostnames are sequences of characters, as URL.hostname gives them
Digits == {"0", "1", "2", "3", "4", "5", "6", "7", "8", "9"}
DigitValue(c) ==
  CASE c = "0" -> 0 [] c = "1" -> 1 [] c = "2" -> 2 [] c = "3" -> 3 [] c = "4" -> 4
    [] c = "5" -> 5 [] c = "6" -> 6 [] c = "7" -> 7 [] c = "8" -> 8 [] c = "9" -> 9

RECURSIVE Number(_)
Number(ds) == IF ds = <<>> THEN 0 ELSE 10 * Number(SubSeq(ds, 1, Len(ds) - 1)) + DigitValue(ds[Len(ds)])

startsWith(h, prefix) == Len(h) >= Len(prefix) /\ SubSeq(h, 1, Len(prefix)) = prefix
endsWith(h, suffix) == Len(h) >= Len(suffix) /\ SubSeq(h, Len(h) - Len(suffix) + 1, Len(h)) = suffix
includes(h, c) == \E i \in 1..Len(h) : h[i] = c

\* /^\d{1,3}(\.\d{1,3}){3}$/
DottedQuad(h) ==
  LET dots == {i \in 1..Len(h) : h[i] = "."}
      ends == dots \cup {Len(h) + 1}
      start(e) == IF \E d \in dots : d < e THEN MaxOf({d \in dots : d < e}) + 1 ELSE 1
  IN /\ Cardinality(dots) = 3
     /\ \A i \in 1..Len(h) : h[i] \in Digits \cup {"."}
     /\ \A e \in ends : e - start(e) \in 1..3

isIpHostname(host) ==
  IF host = <<>> THEN FALSE
  ELSE IF includes(host, ":") THEN TRUE
  ELSE DottedQuad(host)

\* the digits between "172." and the next dot
SecondOctet(host) ==
  LET rest == SubSeq(host, 5, Len(host))
      dot == CHOOSE i \in 1..Len(rest) : rest[i] = "." /\ \A j \in 1..(i - 1) : rest[j] # "."
  IN Number(SubSeq(rest, 1, dot - 1))

isProbablyPrivateHost(host) ==
  \/ host = <<>>
  \/ host = <<"l", "o", "c", "a", "l", "h", "o", "s", "t">>
  \/ endsWith(host, <<".", "l", "o", "c", "a", "l">>)
  \/ host = <<":", ":", "1">>
  \/ startsWith(host, <<"f", "e", "8", "0", ":">>)
  \/ startsWith(host, <<"f", "c">>) \/ startsWith(host, <<"f", "d">>)
  \/ /\ DottedQuad(host)
     /\ \/ host = <<"0", ".", "0", ".", "0", ".", "0">>
        \/ startsWith(host, <<"1", "0", ".">>)
        \/ startsWith(host, <<"1", "2", "7", ".">>)
        \/ startsWith(host, <<"1", "6", "9", ".", "2", "5", "4", ".">>)
        \/ startsWith(host, <<"1", "9", "2", ".", "1", "6", "8", ".">>)
        \/ startsWith(host, <<"1", "7", "2", ".">>) /\ SecondOctet(host) \in 16..31

\* mutant: the private-host guard is not applied
FetchGuards_NoPrivate(u) ==
  IF u.user # "" \/ u.password # "" THEN 400
  ELSE IF isIpHostname(u.host) THEN 400
  ELSE 0

\* the three guards on the parsed URL: the status answered, 0 to go on to the fetch
FetchGuards(u) ==
  IF u.user # "" \/ u.password # "" THEN 400
  ELSE IF isIpHostname(u.host) THEN 400
  ELSE IF isProbablyPrivateHost(u.host) THEN 400
  ELSE 0

\* res.ok
Ok(status) == status \in 200..299

\* the status answered once the fetch has been issued
FetchAnswer(up) ==
  IF up.kind = "abort" THEN 504
  ELSE IF up.kind = "error" THEN 502
  ELSE IF ~Ok(up.status) THEN up.status
  ELSE IF ~up.html THEN 415
  ELSE IF ~up.title THEN 422
  ELSE 200

FetchTitle(cookie, req, up) ==
  LET auth == requireAuth(cookie, env, now)
      u == normalizeHttpUrl(req.url)
      r == Rejected(cookie, req, 400)
  IN Respond(IF ~auth.ok THEN Rejected(cookie, req, auth.status)
             ELSE IF ~req.valid \/ ~FetchTitleBody(req) THEN r
             ELSE IF ~u.wellFormed THEN r
             ELSE IF FetchGuards(u) # 0 THEN [r EXCEPT !.status = FetchGuards(u)]
             ELSE [r EXCEPT !.status = FetchAnswer(up), !.fetched = TRUE, !.upstream = up])

\* the entity of sequence s that carries the id
Entity(s, id) == s[IndexOf(s, id)]

\* what a saved create assigned: its bucket, the order it was given, and
\* how many creates in that bucket have followed one another
CreateOp(req, out) ==
  LET op == IF out.status # 200 THEN NoOp
            ELSE IF req.route = "POST groups"
            THEN [NoOp EXCEPT !.kind = "group", !.order = out.order]
            ELSE IF req.route = "POST sections"
            THEN [NoOp EXCEPT !.kind = "section", !.groupId = req.groupId, !.order = out.order]
            ELSE IF req.route = "POST links"
            THEN [NoOp EXCEPT !.kind = "link", !.groupId = req.groupId,
                              !.sectionId = Entity(out.doc.links, out.id).sectionId,
                              !.order = out.order]
            ELSE NoOp
      same == /\ lastOp.kind = op.kind
              /\ lastOp.groupId = op.groupId
              /\ lastOp.sectionId = op.sectionId
  IN IF op.kind = "none" THEN NoOp
     ELSE [op EXCEPT !.run = IF same THEN lastOp.run + 1 ELSE 1]

\* the handler's saveData and response
\* stale: the save replaced a store that was no longer the loaded document
Save(route, req, out, loaded) ==
  /\ data' = IF out.save THEN out.doc ELSE data
  /\ resp' = [Resp(route, out.status) EXCEPT !.id = out.id, !.order = out.order, !.cookie = "valid",
                                              !.req = req, !.stale = out.save /\ loaded # data]
  /\ lastOp' = IF out.save THEN CreateOp(req, out) ELSE lastOp

\* one /api/admin/* request handled with no other request in between
AdminRequest(cookie, req) ==
  /\ AllIdle
  /\ LET pre == PreLoad(cookie, req)
     IN IF pre # 0 THEN Respond(Rejected(cookie, req, pre))
        ELSE LET out == Handle(data, Routed(req))
             IN /\ served < MaxRequests
                /\ out.order <= MaxOrder
                /\ Save(req.route, req, out, data)
                /\ served' = served + 1
                /\ UNCHANGED <<env, loginFail, now, issued, inflight, reader>>

\* an /api/admin/* request up to and including loadData
AdminBegin(p, cookie, req) ==
  /\ inflight[p].pc = "idle"
  /\ LET pre == PreLoad(cookie, req)
     IN IF pre # 0 THEN Respond(Rejected(cookie, req, pre))
        ELSE /\ served < MaxRequests
             /\ Handle(data, Routed(req)).order <= MaxOrder
             /\ inflight' = [inflight EXCEPT ![p] = [Idle EXCEPT !.pc = "loaded", !.req = Routed(req),
                                                                !.data = data]]
             /\ served' = served + 1
             /\ UNCHANGED <<env, data, loginFail, now, issued, resp, lastOp, reader>>

\* mutant: a reorder saves its group and section entries, then its link
\* entries with a second save
AdminFinish_TwoSaves(p) ==
  LET req == inflight[p].req
  IN IF req.route = "POST reorder" /\ inflight[p].pc = "loaded"
     THEN /\ data' = normalizeData(ReorderApply(inflight[p].data, req.gp, req.sp, <<>>))
          /\ inflight' = [inflight EXCEPT ![p].pc = "links", ![p].data = data']
          /\ UNCHANGED <<env, loginFail, now, issued, served, resp, lastOp, reader>>
     ELSE /\ inflight[p].pc \in {"loaded", "links"}
          /\ Save(req.route, req, Handle(inflight[p].data, req), inflight[p].data)
          /\ inflight' = [inflight EXCEPT ![p] = Idle]
          /\ UNCHANGED <<env, loginFail, now, issued, served, reader>>

\* mutant: the document is loaded again when the request saves
AdminFinish_Reload(p) ==
  /\ inflight[p].pc = "loaded"
  /\ Save(inflight[p].req.route, inflight[p].req, Handle(data, inflight[p].req), data)
  /\ inflight' = [inflight EXCEPT ![p] = Idle]
  /\ UNCHANGED <<env, loginFail, now, issued, served, reader>>

\* the rest of the request: mutate the loaded document, normalize, save, respond
AdminFinish(p) ==
  /\ inflight[p].pc = "loaded"
  /\ Save(inflight[p].req.route, inflight[p].req, Handle(inflight[p].data, inflight[p].req),
          inflight[p].data)
  /\ inflight' = [inflight EXCEPT ![p] = Idle]
  /\ UNCHANGED <<env, loginFail, now, issued, served, reader>>

\* ---- the document API, one request at a time ----
\* Documents the store can hold when the admin starts: each is normalized,
\* and POST /api/admin/save stores any normalized document in one request.
G(id, order) == [id |-> id, order |-> order, enabled |-> TRUE]
S(id, groupId, order) == [id |-> id, groupId |-> groupId, order |-> order]
L(id, groupId, sectionId, order) ==
  [id |-> id, groupId |-> groupId, sectionId |-> sectionId, order |-> order]
Doc(groups, sections, links) ==
  [settings |-> defaultSettings, groups |-> groups, sections |-> sections, links |-> links]

StoredDocs ==
  {EmptyDoc,
   Doc(<<G("g1", 0)>>, <<>>, <<>>),
   Doc(<<G("g1", 1)>>, <<S("s1", "g1", 1)>>, <<>>),
   Doc(<<G("g1", 0), G("g2", 0)>>, <<S("s1", "g1", 0)>>, <<L("l1", "g1", "s1", 1)>>),
   Doc(<<G("g1", 0), G("g2", 1)>>, <<S("s1", "g1", 0), S("s2", "g2", 0)>>,
       <<L("l1", "g1", "s1", 0), L("l2", "g2", None, 0)>>),
   Doc(<<G("g2", 0), G("g1", 1)>>, <<S("s1", "g1", 0), S("s2", "g1", 1)>>,
       <<L("l1", "g1", "s1", 0), L("l2", "g1", "s1", 1)>>),
   Doc(<<G("g1", 1), G("g2", 1)>>, <<S("s2", "g2", 1)>>,
       <<L("l2", "g2", "s2", 0), L("l1", "g1", None, 1)>>)}

InitStored ==
  /\ env \in Envs
  /\ data \in StoredDocs
  /\ loginFail = <<>>
  /\ now = 0
  /\ issued = {}
  /\ inflight = [p \in Procs |-> Idle]
  /\ resp = NoResp
  /\ lastOp = NoOp
  /\ served = 0
  /\ reader = NoReader

Admin == {"ipA"}

\* the admin logs in once, then sends well-formed requests with the cookie
AdminLogin == \E ip \in Admin : issued = {} /\ LoginStart(1, ip, "pw")
AdminLoggedIn == LoginFinish(1)
AdminCall == \E c \in issued, req \in AdminRequests(UsedIds(data)) : AdminRequest(c, req)

Next ==
  \/ AdminLogin
  \/ AdminLoggedIn
  \/ AdminCall

Spec == InitStored /\ [][Next]_vars

\* a step in which an admin request was handled through to its response
Handled(route) == served' = served + 1 /\ resp'.route = route /\ resp'.status = 200

\* C6: after a successful DELETE /api/admin/groups/:id the saved document
\* has no group, section or link of that group id, and every other group,
\* and every section and link of another group, is still there.
C6_DeleteGroupCascades ==
  [][Handled("DELETE group") =>
       LET id == resp'.id
       IN /\ id \notin Ids(data'.groups)
          /\ \A s \in Range(data'.sections) : s.groupId # id
          /\ \A l \in Range(data'.links) : l.groupId # id
          /\ \A g \in Range(data.groups) : g.id # id => g \in Range(data'.groups)
          /\ \A s \in Range(data.sections) : s.groupId # id => s \in Range(data'.sections)
          /\ \A l \in Range(data.links) : l.groupId # id => l \in Range(data'.links)]_vars

\* g1 with its section and link deleted, g2 with its section and link kept
C6_Witness ==
  /\ resp.route = "DELETE group" /\ resp.status = 200 /\ resp.id = "g1"
  /\ served = 1
  /\ Ids(data.groups) = {"g2"} /\ Ids(data.sections) = {"s2"} /\ Ids(data.links) = {"l2"}

\* C7: a successful DELETE /api/admin/sections/:id removes that section
\* only: its links stay, with the same id and groupId and no sectionId, and
\* the number of links does not change.
C7_DeleteSectionKeepsLinks ==
  [][Handled("DELETE section") =>
       LET id == resp'.id
       IN /\ Ids(data'.sections) = Ids(data.sections) \ {id}
          /\ data'.groups = data.groups
          /\ Len(data'.links) = Len(data.links)
          /\ \A l \in Range(data.links) :
               IF l.sectionId = id
               THEN \E m \in Range(data'.links) :
                      m.id = l.id /\ m.groupId = l.groupId /\ m.sectionId = None
               ELSE l \in Range(data'.links)]_vars

\* s1 deleted from a document whose links l1 and l2 were both in s1
C7_Witness ==
  /\ resp.route = "DELETE section" /\ resp.status = 200 /\ resp.id = "s1"
  /\ served = 1
  /\ Ids(data.sections) = {"s2"}
  /\ Len(data.links) = 2
  /\ \A l \in Range(data.links) : l.sectionId = None /\ l.groupId = "g1"

\* C8: in the stored document every link's groupId and every section's
\* groupId is the id of a group of the same document.
C8_GroupRefsExist ==
  /\ \A l \in Range(data.links) : l.groupId \in Ids(data.groups)
  /\ \A s \in Range(data.sections) : s.groupId \in Ids(data.groups)

\* a legacy save whose body held a link and a section of a missing group
C8_Witness ==
  /\ resp.route = "POST save" /\ resp.status = 200
  /\ Ids(data.groups) = {"g2"} /\ Ids(data.links) = {"l2"} /\ data.sections = <<>>

\* the bucket a create falls in
Bucket(d, op) ==
  IF op.kind = "group" THEN Range(d.groups)
  ELSE IF op.kind = "section" THEN {s \in Range(d.sections) : s.groupId = op.groupId}
  ELSE {l \in Range(d.links) : l.groupId = op.groupId /\ l.sectionId = op.sectionId}

Saved(d, op, id) ==
  IF op.kind = "group" THEN Entity(d.groups, id)
  ELSE IF op.kind = "section" THEN Entity(d.sections, id)
  ELSE Entity(d.links, id)

\* C9: a create is given order 1 + the maximum order in its bucket, 0 when
\* the bucket is empty, and creates that follow one another in one bucket
\* get strictly increasing orders.
C9_CreateOrderIncreases ==
  [][(\E r \in {"POST groups", "POST sections", "POST links"} : Handled(r)) =>
       /\ LET bucket == Bucket(data, lastOp')
          IN IF bucket = {} THEN lastOp'.order = 0
             ELSE \E top \in bucket : /\ lastOp'.order = top.order + 1
                                      /\ \A x \in bucket : x.order <= top.order
       /\ Saved(data', lastOp', resp'.id).order = lastOp'.order
       /\ Saved(data', lastOp', resp'.id) \in Bucket(data', lastOp')
       /\ lastOp'.run > 1 => lastOp'.order > lastOp.order]_vars

\* the second of two links created one after the other in section s1 of g1
C9_Witness ==
  /\ lastOp.kind = "link" /\ lastOp.run = 2 /\ lastOp.sectionId = "s1"
  /\ lastOp.order = 1 /\ resp.route = "POST links" /\ resp.status = 200

\* ---- login and its failure counter, one request at a time ----
LoginBegin == \E ip \in IPs, password \in LoginBodies : LoginStart(1, ip, password)
LoginPause == LoginSleep(1)
LoginEnd == LoginFinish(1)

NextLogin ==
  \/ LoginBegin
  \/ LoginPause
  \/ LoginEnd

SpecLogin == Init /\ [][NextLogin]_vars

\* C4: with the logins of an IP handled one after another, a wrong password
\* is answered 401 and raises the stored count of that IP by exactly 1, so
\* the sleep of the next attempt is no shorter than that of this one; a
\* correct password is answered 200 and leaves no record for that IP; the
\* record of another IP is never touched.
C4_FailuresCountUp ==
  [][(inflight[1].pc = "read" /\ inflight'[1].pc = "idle") =>
       LET ip == inflight[1].req.ip
           provided == inflight[1].req.password
           before == getLoginFail(loginFail, ip)
           after == getLoginFail(loginFail', ip)
           backoff(f) == IF f > 0 THEN Min(8000, 700 + 700 * f) ELSE 0
       IN /\ provided \notin {BadJson, "", env.PASSWORD} =>
               /\ resp'.status = 401
               /\ after = before + 1
               /\ backoff(after) >= backoff(before)
          /\ provided = env.PASSWORD =>
               /\ resp'.status = 200
               /\ after = 0
               /\ ip \notin DOMAIN loginFail'
          /\ \A other \in IPs \ {ip} :
               getLoginFail(loginFail', other) = getLoginFail(loginFail, other)]_vars

\* a correct password after three failures: the request slept, the record is gone
C4_Witness ==
  /\ resp.route = "POST login" /\ resp.status = 200
  /\ resp.slept = 2800
  /\ "ipA" \notin DOMAIN loginFail
  /\ inflight[1].pc = "idle"

\* C5: a login whose IP has a stored count fails > 0 has slept
\* min(8000, 700 + 700 * fails) ms when it comes to read its body, whatever
\* the body holds; with fails = 0 it has not slept; a request that has yet
\* to sleep has not read its body.
C5_SleepBeforeRead ==
  /\ \A p \in Procs :
       LET fails == getLoginFail(loginFail, inflight[p].req.ip)
       IN /\ inflight[p].pc = "read" =>
               inflight[p].slept = IF fails > 0 THEN Min(8000, 700 + 700 * fails) ELSE 0
          /\ inflight[p].pc = "sleep" => fails > 0 /\ inflight[p].slept = 0
  /\ (resp.route = "POST login" /\ resp.status # 503 /\ resp.slept # 0) =>
       \E fails \in 1..MaxFails : resp.slept = Min(8000, 700 + 700 * fails)

\* a correct password after eleven failures or more: answered after the capped sleep
C5_Witness ==
  /\ resp.route = "POST login" /\ resp.status = 200 /\ resp.password = "pw"
  /\ resp.slept = 8000

\* ---- sessions and the auth gate ----
\* one request per admin route, and the requests that fail their schema or
\* match no route
GateRequests(used) ==
  {R("GET settings"),
   [R("PUT settings") EXCEPT !.siteTitle = "Mine"],
   [R("PUT group") EXCEPT !.id = "g1", !.enabled = "false"],
   [R("DELETE group") EXCEPT !.id = "g1"],
   [R("PUT section") EXCEPT !.id = "s1", !.order = 1],
   [R("DELETE section") EXCEPT !.id = "s1"],
   [R("PUT link") EXCEPT !.id = "l1", !.groupId = "g1"],
   [R("DELETE link") EXCEPT !.id = "l1"]}
  \cup {[R("POST groups") EXCEPT !.newId = n] : n \in {"g1"} \ used}
  \cup {[R("POST sections") EXCEPT !.groupId = "g1", !.newId = n] : n \in {"s1"} \ used}
  \cup {[R("POST links") EXCEPT !.groupId = "g1", !.newId = n] : n \in {"l1"} \ used}
  \cup Reorders({<<[x \in {"g1"} |-> 1], NoPatch, NoPatch>>})
  \cup {[R("POST save") EXCEPT !.body = b] : b \in LegacyBodies}
  \cup BadRequests

AuthTick == Tick
AuthMe == \E c \in Cookies : GetMe(c)
AuthLogout == Logout
AuthLogin == \E ip \in Admin, password \in {BadJson, "", "pw"} : LoginStart(1, ip, password)
AuthLoggedIn == LoginFinish(1)
AuthAdmin == \E c \in Cookies, req \in GateRequests(UsedIds(data)) : AdminRequest(c, req)

NextAuth ==
  \/ AuthTick
  \/ AuthMe
  \/ AuthLogout
  \/ AuthLogin
  \/ AuthLoggedIn
  \/ AuthAdmin

SpecAuth == Init /\ [][NextAuth]_vars

C2_LoginSetsSession ==
  /\ (resp.route = "POST login" /\ env.PASSWORD # "" /\ resp.password = env.PASSWORD) =>
       /\ resp.status = 200
       /\ resp.maxAge = 7 * 24 * 60 * 60
       /\ resp.setCookie.sub = "admin"
       /\ resp.setCookie.exp - resp.setCookie.iat = resp.maxAge
       /\ resp.setCookie.iat <= now
       /\ resp.setCookie.sig = Hmac("admin", resp.setCookie.iat, resp.setCookie.exp,
                                    getSessionSecret(env))
       /\ resp.setCookie \in issued
  /\ (resp.route = "GET me" /\ resp.cookie = "valid") =>
       /\ resp.authed = "true"
       /\ resp.maxAge = -1

\* the cookie of a login at time 0 presented to /api/me four days later
C2_Witness ==
  /\ resp.route = "GET me" /\ resp.cookie = "valid" /\ resp.authed = "true"
  /\ now = TickSeconds
  /\ issued # {} /\ \A t \in issued : t.iat = 0

ConcDocs ==
  {Doc(<<G("g1", 0), G("g2", 1)>>, <<S("s1", "g1", 0), S("s2", "g2", 0)>>,
       <<L("l1", "g1", "s1", 0), L("l2", "g2", None, 0)>>),
   Doc(<<G("g1", 0)>>, <<>>, <<L("l1", "g1", None, 0), L("l2", "g1", None, 1)>>)}

InitConc == InitStored /\ data \in ConcDocs

\* reorders that carry a group entry and a link entry, and two other writers
ConcRequests ==
  Reorders(MixedBodies)
  \cup {[R("DELETE link") EXCEPT !.id = "l2"],
        [R("PUT group") EXCEPT !.id = "g1", !.enabled = "false"]}

ConcBegin == \E p \in Procs, c \in issued, req \in ConcRequests : AdminBegin(p, c, req)
ConcFinish == \E p \in Procs : AdminFinish(p)
ConcRead == GetLinks

NextConc ==
  \/ AdminLogin
  \/ AdminLoggedIn
  \/ ConcBegin
  \/ ConcFinish
  \/ ConcRead

SpecConc == InitConc /\ [][NextConc]_vars

\* C10: a reorder that has loaded the document writes the store in one
\* step only, the step that ends the request, and what that step stores is
\* the loaded document with every entry of the batch applied: each group
\* and section named in the batch has its new order, each link named in the
\* batch has its new order and, where the entry carries a groupId, that
\* groupId, and every other entity is as it was loaded. Until that step the
\* store holds nothing of the batch.
C10_ReorderOneSave ==
  [][\A p \in Procs :
       LET req == inflight[p].req
           loaded == inflight[p].data
       IN /\ (inflight[p].pc = "idle" /\ inflight'[p].pc = "loaded") => data' = data
          /\ (inflight[p].pc = "loaded" /\ req.route = "POST reorder"
              /\ inflight'[p] # inflight[p]) =>
            /\ inflight'[p].pc = "idle"
            /\ resp'.route = "POST reorder" /\ resp'.status = 200
            /\ Ids(data'.groups) = Ids(loaded.groups)
            /\ \A g \in Range(data'.groups) :
                 IF g.id \in DOMAIN req.gp THEN g.order = req.gp[g.id]
                 ELSE g \in Range(loaded.groups)
            /\ \A x \in Range(data'.sections) :
                 IF x.id \in DOMAIN req.sp THEN x.order = req.sp[x.id]
                 ELSE x \in Range(loaded.sections)
            /\ \A l \in Range(data'.links) :
                 IF l.id \in DOMAIN req.lp
                 THEN /\ l.order = req.lp[l.id].order
                      /\ req.lp[l.id].groupId # Absent => l.groupId = req.lp[l.id].groupId
                 ELSE l \in Range(loaded.links)
            /\ \A l \in Range(loaded.links) :
                 (l.id \in DOMAIN req.lp /\ req.lp[l.id].groupId \in Ids(loaded.groups))
                   => l.id \in Ids(data'.links)]_vars

\* the second of two admin requests, a reorder, has moved l1 from g1 to g2
\* with order 2 and given g1 order 2
C10_Witness ==
  /\ resp.route = "POST reorder" /\ resp.status = 200
  /\ served = 2 /\ AllIdle
  /\ Entity(data.groups, "g1").order = 2
  /\ Entity(data.links, "l1").groupId = "g2" /\ Entity(data.links, "l1").order = 2
  /\ "l2" \in Ids(data.links)
  /\ Entity(data.groups, "g1").enabled

\* ---- bodies that fail their schema ----
SchemaCall ==
  \E c \in issued, req \in SchemaFailures \cup BadRequests \cup GateRequests(UsedIds(data)) :
    AdminRequest(c, req)

\* fetch-title with a body that fails FetchTitleBody, and with one that passes
SchemaFetch ==
  \E c \in issued, u \in {AbsentUrl, EmptyUrl, FtpUrl, BrokenUrl, OkUrl}, v \in BOOLEAN :
    FetchTitle(c, [R("POST fetch-title") EXCEPT !.url = u, !.valid = v],
               Upstream("response", 200, TRUE, TRUE))

NextSchema ==
  \/ AdminLogin
  \/ AdminLoggedIn
  \/ SchemaCall
  \/ SchemaFetch

SpecSchema == InitStored /\ [][NextSchema]_vars

\* C11: an authenticated create, update, reorder, settings or fetch-title request whose
\* body is not JSON, lacks a required field, has a name or title of length 0
\* or above the maximum, a URL that is not http(s), an empty patch, or an
\* order that is negative or not an integer, is answered 400 without a load
\* and without a save: the stored document is unchanged.
C11_BadBodyRejected ==
  [][LET req == resp'.req
         named == req.nameLen # -1
         nameBad(max) == named /\ (req.nameLen < 1 \/ req.nameLen > max)
         urlBad == req.url.scheme \notin {"", "http", "https"} \/ ~req.url.wellFormed
         bad == CASE req.route = "POST groups" -> ~named \/ nameBad(64)
                  [] req.route = "PUT group" ->
                       nameBad(64) \/ (~named /\ req.enabled = Absent)
                       \/ req.enabled \notin {Absent, "true", "false"}
                  [] req.route = "POST sections" ->
                       ~named \/ nameBad(60) \/ req.groupId \notin GroupIds
                  [] req.route = "PUT section" ->
                       nameBad(60) \/ req.order < -1 \/ (~named /\ req.order = -1)
                  [] req.route = "POST links" ->
                       ~named \/ nameBad(80) \/ urlBad \/ req.groupId \notin GroupIds
                       \/ req.sectionId \notin {Absent} \cup SectionIds
                       \/ req.icon.scheme \notin {Absent, "", "http", "https"}
                  [] req.route = "PUT link" ->
                       nameBad(80) \/ (req.url # AbsentUrl /\ urlBad)
                       \/ req.sectionId \notin {Absent, Null} \cup SectionIds
                       \/ (~named /\ req.url = AbsentUrl /\ req.icon = AbsentUrl
                           /\ req.groupId = Absent /\ req.sectionId = Absent)
                  [] req.route = "POST reorder" ->
                       \/ \E id \in DOMAIN req.gp : req.gp[id] < 0
                       \/ \E id \in DOMAIN req.sp : req.sp[id] < 0
                       \/ \E id \in DOMAIN req.lp : req.lp[id].order < 0
                  [] req.route = "PUT settings" -> req.siteTitle = ""
                  [] req.route = "POST fetch-title" -> urlBad
                  [] OTHER -> FALSE
     IN (resp'.cookie = "valid" /\ req.route \in BodyRoutes \cup {"POST fetch-title"}
         /\ (bad \/ ~req.valid)) =>
          /\ resp'.status = 400 /\ ~resp'.fetched
          /\ data' = data
          /\ served' = served]_vars

\* a reorder with a negative order, sent after another request was served,
\* answered 400
C11_Witness ==
  /\ resp.route = "POST reorder" /\ resp.status = 400 /\ resp.cookie = "valid"
  /\ resp.req.valid /\ "g1" \in DOMAIN resp.req.gp /\ resp.req.gp["g1"] < 0
  /\ served = 1

\* C12: a PUT or DELETE of a group, section or link whose id is not in the
\* loaded document, a POST of a section or link whose groupId names no
\* group, and a PUT of a link to a groupId that names no group, are
\* answered 404 and nothing is saved; no other served request is answered 404.
C12_MissingIs404 ==
  [][(served' = served + 1) =>
       LET req == resp'.req
           missing ==
             CASE req.route \in {"PUT group", "DELETE group"} -> req.id \notin Ids(data.groups)
               [] req.route \in {"PUT section", "DELETE section"} -> req.id \notin Ids(data.sections)
               [] req.route = "DELETE link" -> req.id \notin Ids(data.links)
               [] req.route \in {"POST sections", "POST links"} -> req.groupId \notin Ids(data.groups)
               [] req.route = "PUT link" ->
                    \/ req.id \notin Ids(data.links)
                    \/ req.groupId # Absent /\ req.groupId \notin Ids(data.groups)
               [] OTHER -> FALSE
       IN /\ missing => (resp'.status = 404 /\ data' = data)
          /\ resp'.status = 404 => missing]_vars

\* a link of the document sent to a group the document does not have
C12_Witness ==
  /\ resp.route = "PUT link" /\ resp.status = 404
  /\ resp.req.id \in Ids(data.links)
  /\ resp.req.groupId \in GroupIds \ Ids(data.groups)

\* ---- a deployment without PASSWORD ----
\* The variable was removed from a deployment that had been in use: the
\* store holds a document and may hold a failure record, and a browser
\* still holds the session cookie it was issued under the same SESSION_SECRET.
Secrets == {"", "s3"}
OldToken(secret) ==
  signSession([sub |-> "admin", iat |-> 0, exp |-> sessionExp(0)],
              getSessionSecret([PASSWORD |-> "pw", SESSION_SECRET |-> secret]))

InitNoPassword ==
  /\ env \in {[PASSWORD |-> "", SESSION_SECRET |-> s] : s \in Secrets}
  /\ data \in StoredDocs
  /\ loginFail \in {<<>>, putLoginFail(<<>>, "ipA", [fails |-> 3])}
  /\ now = 0
  /\ issued = {OldToken(env.SESSION_SECRET)}
  /\ inflight = [p \in Procs |-> Idle]
  /\ resp = NoResp
  /\ lastOp = NoOp
  /\ served = 0
  /\ reader = NoReader

NoPwTick == Tick
NoPwLinks == GetLinks
NoPwMe == \E c \in Cookies : GetMe(c)
NoPwLogout == Logout
NoPwLogin == \E ip \in IPs, password \in LoginBodies : LoginStart(1, ip, password)
NoPwAdmin == \E c \in Cookies, req \in GateRequests(UsedIds(data)) : AdminRequest(c, req)

NextNoPassword ==
  \/ NoPwTick
  \/ NoPwLinks
  \/ NoPwMe
  \/ NoPwLogout
  \/ NoPwLogin
  \/ NoPwAdmin

SpecNoPassword == InitNoPassword /\ [][NextNoPassword]_vars

WriteRoutes == AdminRoutes \ {"GET settings"}

\* C13: with PASSWORD unset or blank, a login is answered 503 with no
\* cookie, the failure records neither read nor changed; every write request
\* under /api/admin/ is answered 503 and nothing is saved; GET /api/me
\* answers authed false whatever cookie is presented; GET /api/links
\* answers 200 with the normalized stored document.
C13_NoPassword ==
  [][(missingPassword(env) /\ resp' # resp) =>
       /\ resp'.route = "POST login" =>
            /\ resp'.status = 503 /\ resp'.setCookie = NoToken
            /\ loginFail' = loginFail /\ inflight' = inflight /\ issued' = issued
       /\ resp'.route \in WriteRoutes =>
            /\ resp'.status = 503
            /\ data' = data /\ served' = served
       /\ resp'.route = "GET me" => resp'.authed = "false"
       /\ resp'.route = "GET links" =>
            /\ resp'.status = 200
            /\ resp'.doc = normalizeData(data) /\ resp'.doc = data]_vars

\* the cookie issued before PASSWORD was removed still carries the server's
\* signature and has not expired, and GET /api/me answers authed false
C13_Witness ==
  /\ missingPassword(env)
  /\ resp.route = "GET me" /\ resp.cookie = "valid" /\ resp.authed = "false"
  /\ \E t \in issued : verifySession(t, getSessionSecret(env), now)
  /\ data # EmptyDoc /\ DOMAIN loginFail # {}

\* C14: when two mutating requests have both loaded the document before
\* either saves, the save of the second replaces the store with its own
\* loaded document mutated, whatever the first has stored meanwhile: a link
\* the first deleted (and answered 200 for) is in the store again, a group
\* the first disabled is enabled again, orders the first assigned are gone.
C14_LastWriteWins ==
  [][\A p \in Procs :
       LET req == inflight[p].req
           loaded == inflight[p].data
           first == resp.req
       IN (/\ inflight[p].pc = "loaded" /\ inflight'[p].pc = "idle"
           /\ resp.status = 200 /\ resp.route = first.route /\ data # loaded) =>
            /\ resp'.status = 200 /\ resp'.stale
            /\ (first.route = "DELETE link" /\ req.route = "PUT group") =>
                 /\ first.id \notin Ids(data.links) /\ first.id \in Ids(data'.links)
                 /\ data'.links = loaded.links
            /\ (first.route = "PUT group" /\ req.route # "PUT group") =>
                 /\ ~Entity(data.groups, first.id).enabled
                 /\ Entity(data'.groups, first.id).enabled
            /\ (first.route = "POST reorder" /\ req.route # "POST reorder") =>
                 /\ data'.sections = loaded.sections
                 /\ \A g \in Range(data'.groups) :
                      \E h \in Range(loaded.groups) : h.id = g.id /\ h.order = g.order
            /\ (req.route = "PUT group") =>
                 data' = [loaded EXCEPT !.groups[IndexOf(loaded.groups, req.id)].enabled = FALSE]
            /\ (req.route = "DELETE link") =>
                 /\ data'.groups = loaded.groups /\ data'.sections = loaded.sections
                 /\ Ids(data'.links) = Ids(loaded.links) \ {req.id}]_vars

\* both requests have been answered 200; the first deleted l2, the second
\* disabled g1 from the document it had loaded before, and the store is the
\* starting document with g1 disabled and l2 in it
C14_Witness ==
  /\ AllIdle /\ served = 2
  /\ resp.route = "PUT group" /\ resp.status = 200 /\ resp.stale
  /\ "l2" \in Ids(data.links)
  /\ \E d \in ConcDocs : data = [d EXCEPT !.groups[1].enabled = FALSE]

\* ---- documents that are not in canonical shape ----
\* What the store can hold from an earlier version or a first deployment,
\* and what a legacy save can carry: keys missing, a group without enabled,
\* arrays out of order or with equal orders, references to no group.
RawFull ==
  {[settings |-> [siteTitle |-> "Mine"],
    groups |-> <<[id |-> "g2", order |-> 1], [id |-> "g1", order |-> 0, enabled |-> FALSE]>>,
    sections |-> <<S("s2", "g2", 1), S("s1", "g1", 1), S("s3", "g3", 0)>>,
    links |-> <<L("l2", "g2", "s2", 2), L("l3", "g3", None, 0), L("l1", "g1", "s9", 2)>>],
   [settings |-> [siteIconDataUrl |-> ImageRef("https:", "")],
    groups |-> <<[id |-> "g1", order |-> 1], [id |-> "g2", order |-> 1, enabled |-> TRUE]>>,
    sections |-> <<S("s1", "g2", 0)>>,
    links |-> <<L("l1", "g2", "s1", 1), L("l2", "g1", None, 1), L("l3", "g2", "s1", 0)>>],
   Doc(<<G("g1", 0)>>, <<S("s1", "g1", 0)>>, <<L("l1", "g1", "s1", 0)>>)}

Restrict(f, keys) == [k \in keys |-> f[k]]
DocKeys == {"settings", "groups", "sections", "links"}
RawDocs == {Restrict(d, keys) : d \in RawFull, keys \in SUBSET DocKeys}

RawBodies ==
  {[EmptyBody EXCEPT !.groups = d.groups, !.links = d.links, !.sections = d.sections,
                     !.hasSections = h] : d \in RawFull, h \in BOOLEAN}

InitRaw ==
  /\ env = [PASSWORD |-> "pw", SESSION_SECRET |-> ""]
  /\ data \in RawDocs
  /\ loginFail = <<>>
  /\ now = 0
  /\ issued = {}
  /\ inflight = [p \in Procs |-> Idle]
  /\ resp = NoResp
  /\ lastOp = NoOp
  /\ served = 0
  /\ reader = NoReader

NormRequests ==
  {R("GET settings")}
  \cup {[R("PUT settings") EXCEPT !.siteTitle = t] : t \in {Absent, "Mine"}}
  \cup {[R("PUT settings") EXCEPT !.siteIcon = i] : i \in SiteIcons}
  \cup {[R("POST save") EXCEPT !.body = b] : b \in RawBodies}

NormCall == \E c \in issued, req \in NormRequests : AdminRequest(c, req)
NormRead == GetLinks

NextNormalize ==
  \/ AdminLogin
  \/ AdminLoggedIn
  \/ NormCall
  \/ NormRead

SpecNormalize == InitRaw /\ [][NextNormalize]_vars

Idempotent(d) == normalizeData(normalizeData(d)) = normalizeData(d)

\* the document a legacy save hands to normalizeData
Merged(d, body) ==
  Spread(d, [k \in {"groups", "links"} \cup (IF body.hasSections THEN {"sections"} ELSE {})
               |-> body[k]])

\* C15: normalizing a document twice gives what normalizing it once gives,
\* for the stored document (canonical or not) and for the document a legacy
\* save builds from its body; a PUT /api/admin/settings that is answered 200
\* stores the groups, sections and links of the normalized document it
\* loaded, and what any request stores is a fixed point of normalizeData.
C15_NormalizeIdempotent ==
  [][/\ Idempotent(data)
     /\ normalizeData(data') = data' \/ data' = data
     /\ (served' = served + 1 /\ resp'.route = "POST save") =>
          /\ Idempotent(Merged(data, resp'.req.body))
          /\ data' = normalizeData(Merged(data, resp'.req.body))
     /\ (served' = served + 1 /\ resp'.route = "PUT settings" /\ resp'.status = 200) =>
          LET loaded == normalizeData(data)
          IN /\ data'.groups = loaded.groups
             /\ data'.sections = loaded.sections
             /\ data'.links = loaded.links
     /\ (resp' # resp /\ resp'.route = "GET links") => Idempotent(resp'.doc)]_vars

\* a store that lacked its sections, held its groups out of order and a
\* link to no group, after a settings update: canonical, and not what it was
C15_Witness ==
  /\ resp.route = "PUT settings" /\ resp.status = 200 /\ served = 1
  /\ resp.req.siteTitle = "Mine"
  /\ Ids(data.groups) = {"g1", "g2"} /\ data.groups[1].id = "g1"
  /\ data.sections = <<>> /\ Ids(data.links) = {"l1", "l2"}
  /\ normalizeData(data) = data

\* C16: POST /api/logout answers 200 with a Set-Cookie that clears the
\* session cookie (empty value, Max-Age 0) and changes nothing on the
\* server; every token the gate accepted before the logout it accepts after
\* it, and an issued, unexpired token presented to GET /api/me or to an
\* /api/admin/ route is accepted whatever logouts came before.
C16_LogoutStateless ==
  [][/\ (resp'.route = "POST logout" /\ resp' # resp) =>
          /\ resp'.status = 200 /\ resp'.setCookie = NoToken /\ resp'.maxAge = 0
          /\ UNCHANGED <<env, data, loginFail, now, issued, inflight, lastOp, served, reader>>
          /\ \A t \in issued :
               /\ requireAuth(t, env', now').ok = requireAuth(t, env, now).ok
               /\ verifySession(t, getSessionSecret(env'), now')
                    = verifySession(t, getSessionSecret(env), now)
     /\ (resp' # resp /\ resp'.cookie = "valid" /\ ~missingPassword(env)) =>
          /\ resp'.route = "GET me" => resp'.authed = "true"
          /\ resp'.route \in AdminRoutes \cup {"GET other"} => resp'.status \notin {401, 503}]_vars

\* a logout has been answered, and the token issued before it is still
\* accepted by the auth check
C16_Witness ==
  /\ resp.route = "POST logout" /\ resp.status = 200 /\ resp.maxAge = 0
  /\ \E t \in issued : requireAuth(t, env, now).ok
  /\ served = 1

\* ---- paths with an :id segment ----
PathIds == {"g1", "s1", "l1", "l2", EncodedId, MalformedId}
PathRequests ==
  {[R(r) EXCEPT !.id = i] : r \in {"DELETE group", "DELETE section", "DELETE link"}, i \in PathIds}
  \cup {[R("PUT group") EXCEPT !.id = i, !.enabled = "false"] : i \in PathIds}
  \cup {[R("PUT section") EXCEPT !.id = i, !.order = 1] : i \in PathIds}
  \cup {[R("PUT link") EXCEPT !.id = i, !.groupId = "g1"] : i \in PathIds}
  \cup {[R("PUT group") EXCEPT !.id = MalformedId, !.valid = FALSE]}
  \cup BadRequests

PathCall == \E c \in Cookies, req \in PathRequests : AdminRequest(c, req)
PathRead == GetLinks

NextPaths ==
  \/ AdminLogin
  \/ AdminLoggedIn
  \/ PathCall
  \/ PathRead

SpecPaths == InitStored /\ [][NextPaths]_vars

\* C17 as stated: handleApi answers every request with an HTTP response and
\* never throws, whatever the method, the path (an :id segment with invalid
\* percent-encoding included), the body and the stored document.
C17_NeverThrows == ~resp.threw /\ (resp # NoResp => resp.status \in 200..599)

\* an authenticated DELETE /api/admin/groups/%E0%A4%A has thrown, and the
\* same route with a well-formed encoded id is answered
C17_Witness ==
  /\ resp.threw /\ resp.route = "DELETE group" /\ resp.req.id = MalformedId
  /\ resp.cookie = "valid"

\* ---- the title fetcher ----
Localhost == <<"l", "o", "c", "a", "l", "h", "o", "s", "t">>
DotLocal == <<"n", "a", "s", ".", "l", "o", "c", "a", "l">>
FcName == <<"f", "c", "b", ".", "i", "o">>
TenNet == <<"1", "0", ".", "0", ".", "0", ".", "1">>
PublicIp == <<"8", ".", "8", ".", "8", ".", "8">>
Net172 == <<"1", "7", "2", ".", "2", "0", ".", "0", ".", "1">>
Loopback6 == <<"[", ":", ":", "1", "]">>
FetchHosts == {HostExample, Localhost, DotLocal, FcName, TenNet, PublicIp, Net172, Loopback6}

FetchUrls ==
  {Url(sch, "", "", h, TRUE) : sch \in {"", "http", "https"}, h \in FetchHosts}
  \cup {Url("https", "admin", "", HostExample, TRUE), Url("https", "", "pw", HostExample, TRUE),
        Url("https", "admin", "pw", Localhost, TRUE), FtpUrl, BrokenUrl, EmptyUrl, AbsentUrl}

UpstreamStatuses == {200, 204, 401, 404, 500}
Upstreams ==
  {Upstream("abort", 0, FALSE, FALSE), Upstream("error", 0, FALSE, FALSE)}
  \cup {Upstream("response", st, h, t) : st \in UpstreamStatuses, h \in BOOLEAN, t \in BOOLEAN}

FetchRequests ==
  {[R("POST fetch-title") EXCEPT !.url = u] : u \in FetchUrls}
  \cup {[R("POST fetch-title") EXCEPT !.valid = FALSE]}

FetchCall == \E c \in issued \cup {NoToken, Forged(now)}, req \in FetchRequests, up \in Upstreams : FetchTitle(c, req, up)
FetchTick == Tick

NextFetch ==
  \/ AdminLogin
  \/ AdminLoggedIn
  \/ FetchCall
  \/ FetchTick

SpecFetch == Init /\ [][NextFetch]_vars

\* C18: fetch-title issues the outbound fetch only for an authenticated
\* request whose URL has no username and no password and whose hostname is
\* neither an IP literal (dotted quad, or anything with a colon) nor a
\* private or loopback name (localhost, *.local, names that start with fc
\* or fd); when one of these fails the answer is 400 and nothing is
\* fetched; a URL that passes all three is fetched.
C18_FetchGuarded ==
  [][(resp' # resp /\ resp'.route = "POST fetch-title") =>
       LET u == resp'.req.url
           creds == u.user # "" \/ u.password # ""
           ip == u.host \in {TenNet, PublicIp, Net172, Loopback6}
           private == u.host \in {Localhost, DotLocal, FcName}
           wellFormed == resp'.req.valid /\ u.wellFormed /\ u.scheme \in {"", "http", "https"}
       IN /\ resp'.fetched => (resp'.cookie = "valid" /\ wellFormed /\ ~creds /\ ~ip /\ ~private)
          /\ (resp'.cookie = "valid" /\ wellFormed /\ (creds \/ ip \/ private)) =>
               (resp'.status = 400 /\ ~resp'.fetched)
          /\ (resp'.cookie = "valid" /\ wellFormed /\ ~creds /\ ~ip /\ ~private) => resp'.fetched
          /\ UNCHANGED <<env, data, loginFail, now, issued, inflight, lastOp, served, reader>>]_vars

\* a URL without scheme whose host is nas.local, sent with a valid cookie:
\* answered 400, nothing fetched
C18_Witness ==
  /\ resp.route = "POST fetch-title" /\ resp.cookie = "valid"
  /\ resp.req.url = Url("", "", "", DotLocal, TRUE)
  /\ resp.status = 400 /\ ~resp.fetched

\* C19 as stated: a fetch-title request that passed the URL guards and
\* produced no title is answered 504 when the fetch timed out or was
\* aborted, 415 when the content type is not HTML, 422 when no title is
\* found, and 502 for every other external failure, an upstream response
\* with a non-2xx status included.
C19_FetchFailureStatus ==
  [][(resp' # resp /\ resp'.route = "POST fetch-title" /\ resp'.fetched /\ resp'.status # 200) =>
       LET up == resp'.upstream
       IN /\ resp'.status \in {502, 504, 415, 422}
          /\ up.kind = "abort" => resp'.status = 504
          /\ up.kind = "error" => resp'.status = 502
          /\ (up.kind = "response" /\ up.status \notin 200..299) => resp'.status = 502
          /\ (up.kind = "response" /\ up.status \in 200..299 /\ ~up.html) => resp'.status = 415
          /\ (up.kind = "response" /\ up.status \in 200..299 /\ up.html /\ ~up.title)
               => resp'.status = 422]_vars

\* the upstream answered 404 and fetch-title answered 404
C19_Witness ==
  /\ resp.route = "POST fetch-title" /\ resp.fetched
  /\ resp.upstream.kind = "response" /\ resp.upstream.status = 404
  /\ resp.status = 404

\* ---- every admin route, load and save as separate steps ----
StepBegin == \E c \in issued, req \in AdminRequests(UsedIds(data)) : AdminBegin(1, c, req)
StepFinish == AdminFinish(1)
StepRead == GetLinks

NextSteps ==
  \/ AdminLogin
  \/ AdminLoggedIn
  \/ StepBegin
  \/ StepFinish
  \/ StepRead

SpecSteps == InitStored /\ [][NextSteps]_vars

\* C20: the store changes only in the step that ends a request which had
\* loaded the document, that request is answered 200, and what is stored is
\* an output of normalizeData (a fixed point of it); the step that loads
\* saves nothing, and a request that is answered 200 for a mutation has
\* loaded once (served counts loads) and saves once, in its last step.
C20_LoadMutateNormalizeSave ==
  [][/\ data' # data =>
          \E p \in Procs :
            /\ inflight[p].pc = "loaded" /\ inflight'[p].pc = "idle"
            /\ resp'.status = 200 /\ resp'.req = inflight[p].req
            /\ data' = normalizeData(data')
            /\ served' = served
     /\ \A p \in Procs :
          /\ (inflight[p].pc = "idle" /\ inflight'[p].pc = "loaded") =>
               /\ data' = data /\ resp' = resp
               /\ served' = served + 1 /\ inflight'[p].data = data
          /\ (inflight[p].pc = "loaded" /\ inflight'[p] # inflight[p]) =>
               /\ inflight'[p].pc = "idle"
               /\ resp'.route = inflight[p].req.route
               /\ served' = served
               /\ (resp'.status = 200 /\ resp'.route # "GET settings") =>
                    data' = normalizeData(data')
               /\ resp'.status # 200 => data' = data]_vars

\* a legacy save whose body carried a link to a group it did not carry:
\* loaded once, answered 200, and the store holds the normalized document
\* without that link
C20_Witness ==
  /\ AllIdle /\ served = 1
  /\ resp.route = "POST save" /\ resp.status = 200
  /\ Len(resp.req.body.links) > Len(data.links)
  /\ normalizeData(data) = data

\* C21 as stated: a reorder link entry that carries only id and order
\* changes only that link's order: its groupId and sectionId in the saved
\* document are what they were before the request.
C21_ReorderKeepsBucket ==
  [][Handled("POST reorder") =>
       \A id \in DOMAIN resp'.req.lp :
         LET p == resp'.req.lp[id]
         IN (p.groupId = Absent /\ p.sectionId = Absent /\ id \in Ids(data.links)) =>
              /\ id \in Ids(data'.links)
              /\ Entity(data'.links, id).order = p.order
              /\ Entity(data'.links, id).groupId = Entity(data.links, id).groupId
              /\ Entity(data'.links, id).sectionId = Entity(data.links, id).sectionId]_vars

\* the document began with l1 in section s1 of g1; after one reorder whose
\* l1 entry carried only id and order, l1 has no section
C21_Witness ==
  /\ served = 1 /\ resp.route = "POST reorder" /\ resp.status = 200
  /\ data.groups = <<G("g2", 0), G("g1", 1)>> /\ "s1" \in Ids(data.sections)
  /\ "l1" \in DOMAIN resp.req.lp
  /\ resp.req.lp["l1"].groupId = Absent /\ resp.req.lp["l1"].sectionId = Absent
  /\ Entity(data.links, "l1").sectionId = None

\* C22 as stated: a successful PUT of a link whose body contains neither
\* groupId nor sectionId leaves the link's groupId, sectionId and order
\* unchanged in the saved document.
C22_UpdateKeepsBucket ==
  [][(Handled("PUT link") /\ resp'.req.groupId = Absent /\ resp'.req.sectionId = Absent) =>
       LET before == Entity(data.links, resp'.req.id)
           after == Entity(data'.links, resp'.req.id)
       IN /\ after.groupId = before.groupId
          /\ after.sectionId = before.sectionId
          /\ after.order = before.order]_vars

\* the document began with l1 (order 0) and l2 (order 1) in section s1 of
\* g1; after one PUT of l1 without groupId and sectionId, l1 has no section
C22_Witness ==
  /\ served = 1 /\ resp.route = "PUT link" /\ resp.status = 200
  /\ data.groups = <<G("g2", 0), G("g1", 1)>>
  /\ resp.req.id = "l1" /\ resp.req.groupId = Absent /\ resp.req.sectionId = Absent
  /\ Entity(data.links, "l1").sectionId = None
  /\ Entity(data.links, "l2").sectionId = "s1"

\* C23 as stated: a reorder never creates or deletes an entity: for every
\* accepted batch, entries with ids that are not in the document and link
\* entries whose groupId names no group included, the group ids, section
\* ids and link ids of the saved document are those of the loaded one.
C23_ReorderKeepsEntities ==
  [][Handled("POST reorder") =>
       /\ Ids(data'.groups) = Ids(data.groups)
       /\ Ids(data'.sections) = Ids(data.sections)
       /\ Ids(data'.links) = Ids(data.links)]_vars

\* the document began with g2 and g1, and l1 and l2 in section s1 of g1;
\* g2 was deleted, then a reorder whose l1 entry named g2 was answered 200,
\* and l1 is not in the store
C23_Witness ==
  /\ served = 2 /\ resp.route = "POST reorder" /\ resp.status = 200
  /\ data.groups = <<G("g1", 1)>>
  /\ data.sections = <<S("s1", "g1", 0), S("s2", "g1", 1)>>
  /\ "l1" \in DOMAIN resp.req.lp /\ resp.req.lp["l1"].groupId = "g2"
  /\ Ids(data.links) = {"l2"}

\* every link that has a sectionId refers to a section of the document
\* whose groupId is the link's groupId
SectionRefsValid(d) ==
  \A l \in Range(d.links) :
    l.sectionId # None =>
      \E x \in Range(d.sections) : x.id = l.sectionId /\ x.groupId = l.groupId

\* C24 as stated: link creates, link updates, reorders, section deletes and
\* group deletes keep the stored document such that every link that has a
\* sectionId refers to an existing section whose groupId equals the link's.
C24_SectionRefsKept ==
  [][(/\ served' = served + 1 /\ resp'.status = 200
      /\ resp'.route \in {"POST links", "PUT link", "POST reorder", "DELETE section", "DELETE group"}
      /\ SectionRefsValid(data)) => SectionRefsValid(data')]_vars

\* after one reorder whose l1 entry carried sectionId s2, l1 of group g1 is
\* stored with section s2, a section of group g2
C24_Witness ==
  /\ served = 1 /\ resp.route = "POST reorder" /\ resp.status = 200
  /\ "l1" \in DOMAIN resp.req.lp /\ resp.req.lp["l1"].sectionId = "s2"
  /\ "l1" \in Ids(data.links) /\ "s2" \in Ids(data.sections)
  /\ Entity(data.links, "l1").groupId = "g1" /\ Entity(data.links, "l1").sectionId = "s2"
  /\ Entity(data.sections, "s2").groupId = "g2"

\* ---- logins that overlap ----
RaceBegin == \E p \in Procs, password \in {BadJson, "wrong", "pw"} : LoginStart(p, "ipA", password)
RacePause == \E p \in Procs : LoginSleep(p)
RaceEnd == \E p \in Procs : LoginFinish(p)

NextRace ==
  \/ RaceBegin
  \/ RacePause
  \/ RaceEnd

SpecRace == Init /\ [][NextRace]_vars

\* C25 as stated: when logins from one IP overlap, no failure is lost and
\* no reset is undone: each wrong-password attempt raises the stored count
\* by one (so k attempts store k), the count goes down only by a
\* correct-password login, which leaves it at zero, and an attempt that
\* started before a reset writes no count back that the reset had removed.
C25_NoLostFailure ==
  [][\A p \in Procs :
       (inflight[p].pc = "read" /\ inflight'[p].pc = "idle") =>
         LET ip == inflight[p].req.ip
             provided == inflight[p].req.password
             before == getLoginFail(loginFail, ip)
             after == getLoginFail(loginFail', ip)
         IN /\ provided \notin {BadJson, "", env.PASSWORD} => after = before + 1
            /\ provided = env.PASSWORD => after = 0
            /\ provided \in {BadJson, ""} => after = before]_vars

\* one attempt has read the count 0 and not yet answered, while the store
\* already holds the failure of another attempt: its 401 will store 1 again
C25_Witness ==
  \E p \in Procs :
    /\ inflight[p].pc = "read" /\ inflight[p].req.password = "wrong"
    /\ inflight[p].fails = 0
    /\ getLoginFail(loginFail, "ipA") = 1
    /\ resp.route = "POST login" /\ resp.status = 401

\* C26: a successful PUT /api/admin/links/:id that stores the link in
\* another bucket (another groupId or another sectionId) gives it order
\* 1 + the maximum order of the links that were in that bucket, 0 when the
\* bucket was empty; a PUT that leaves the link in its bucket keeps its order.
C26_MovedLinkGoesLast ==
  [][Handled("PUT link") =>
       LET before == Entity(data.links, resp'.req.id)
           after == Entity(data'.links, resp'.req.id)
           target == {l \in Range(data.links) :
                        l.groupId = after.groupId /\ l.sectionId = after.sectionId}
       IN IF after.groupId = before.groupId /\ after.sectionId = before.sectionId
          THEN after.order = before.order
          ELSE /\ before \notin target
               /\ IF target = {} THEN after.order = 0
                  ELSE \E top \in target : /\ after.order = top.order + 1
                                           /\ \A x \in target : x.order <= top.order]_vars

\* l1 was moved by one PUT from section s1 of g1 into the bucket of l2
\* (g2, no section), where l2 has order 0: l1 is stored with order 1
C26_Witness ==
  /\ served = 1 /\ resp.route = "PUT link" /\ resp.status = 200
  /\ resp.req.id = "l1" /\ resp.req.groupId = "g2"
  /\ "s1" \in Ids(data.sections)
  /\ Ids(data.links) = {"l1", "l2"}
  /\ Entity(data.links, "l2") = L("l2", "g2", None, 0)
  /\ Entity(data.links, "l1") = L("l1", "g2", None, 1)

\* C27: PUT /api/admin/settings changes only the settings fields present in
\* the patch: a field the patch lacks keeps its value, a field it has takes
\* the patch's value, and groups, sections and links are unchanged; when
\* the resulting siteIconDataUrl or faviconDataUrl is neither empty, a
\* data:image/ value nor an http(s) URL the answer is 400 and nothing is
\* saved, and otherwise the answer is 200.
C27_SettingsPatchOnly ==
  [][(served' = served + 1 /\ resp'.route = "PUT settings") =>
       LET req == resp'.req
           old == data.settings
           title == IF req.siteTitle = Absent THEN old.siteTitle ELSE req.siteTitle
           icon == IF req.siteIcon = AbsentImage THEN old.siteIconDataUrl ELSE req.siteIcon
           favicon == IF req.favicon = AbsentImage THEN old.faviconDataUrl ELSE req.favicon
           Allowed(v) == \/ v = NoImage
                         \/ v.prefix = "data:" /\ v.media \in {"image/png", "image/svg+xml"}
                         \/ v.prefix \in {"http:", "https:"}
       IN IF Allowed(icon) /\ Allowed(favicon)
          THEN /\ resp'.status = 200
               /\ data'.settings = [siteTitle |-> title, siteIconDataUrl |-> icon,
                                    faviconDataUrl |-> favicon]
               /\ data'.groups = data.groups
               /\ data'.sections = data.sections
               /\ data'.links = data.links
          ELSE resp'.status = 400 /\ data' = data]_vars

\* the favicon was set by an earlier patch; a second patch with only
\* siteTitle has been answered 200 and the favicon is still there, in a
\* document that has groups, a section and links
C27_Witness ==
  /\ served = 2 /\ resp.route = "PUT settings" /\ resp.status = 200
  /\ resp.req.siteTitle = "Mine" /\ resp.req.favicon = AbsentImage
  /\ data.settings = [siteTitle |-> "Mine", siteIconDataUrl |-> NoImage,
                      faviconDataUrl |-> ImageRef("https:", "")]
  /\ Len(data.groups) = 2 /\ Len(data.sections) = 2 /\ Len(data.links) = 2

\* ---- logins that carry no password ----
BodiesBegin ==
  \E ip \in IPs, password \in {BadJson, NullBody, "", "wrong"} : LoginStart(1, ip, password)
BodiesPause == LoginSleep(1)
BodiesEnd == LoginFinish(1)

NextBodies ==
  \/ BodiesBegin
  \/ BodiesPause
  \/ BodiesEnd

SpecBodies == Init /\ [][NextBodies]_vars

C29_LoginPerIp ==
  [][/\ \A other \in IPs :
          other # inflight[1].req.ip =>
            /\ (other \in DOMAIN loginFail') = (other \in DOMAIN loginFail)
            /\ getLoginFail(loginFail', other) = getLoginFail(loginFail, other)
     /\ (inflight[1].pc = "read" /\ inflight'[1].pc = "idle") =>
          LET own == getLoginFail(loginFail, inflight[1].req.ip)
          IN resp'.slept = IF own > 0 THEN Min(8000, 700 + 700 * own) ELSE 0
     /\ data' = data /\ served' = served /\ lastOp' = lastOp]_vars

\* ipB has three failures on record; ipA, after one failure of its own, has
\* logged in: it slept 1400 ms, its record is gone, ipB's is as it was
C29_Witness ==
  /\ resp.route = "POST login" /\ resp.status = 200 /\ resp.slept = 1400
  /\ inflight[1].pc = "idle"
  /\ DOMAIN loginFail = {"ipB"} /\ getLoginFail(loginFail, "ipB") = 3

\* ---- readTextUpTo ----
MAX_READ_BYTES == 96 * 1024
MaxChunks == 3

\* byteLength of the chunks reader.read() hands over; 0 is an empty chunk
ChunkSizes == {0, 1, 3, 65536, MAX_READ_BYTES, MAX_READ_BYTES + 1}
Limits == {2, 4, MAX_READ_BYTES}
NoBody == <<-1>>
Streams == {NoBody} \cup UNION {[1..n -> ChunkSizes] : n \in 0..MaxChunks}

\* mutant: the chunk is decoded whole
Iterate_NoSlice(r) ==
  LET r1 == [r EXCEPT !.reads = @ + 1, !.slice = 0]
  IN IF r.stream = <<>> THEN [r1 EXCEPT !.pc = "after"]
     ELSE LET value == Head(r.stream)
              r2 == [r1 EXCEPT !.stream = Tail(@)]
          IN IF value = 0 THEN r2
             ELSE LET remaining == r.limitBytes - r.bytes
                  IN IF remaining <= 0 THEN [r2 EXCEPT !.pc = "after"]
                     ELSE LET bytes == r.bytes + value
                          IN [r2 EXCEPT !.bytes = bytes, !.slice = value,
                                        !.decoded = @ + value,
                                        !.pc = IF bytes >= r.limitBytes THEN "after" ELSE "loop"]

\* one pass of the while loop: r with the locals as the pass leaves them
Iterate(r) ==
  LET r1 == [r EXCEPT !.reads = @ + 1, !.slice = 0]
  IN IF r.stream = <<>> THEN [r1 EXCEPT !.pc = "after"]
     ELSE LET value == Head(r.stream)
              r2 == [r1 EXCEPT !.stream = Tail(@)]
          IN IF value = 0 THEN r2
             ELSE LET remaining == r.limitBytes - r.bytes
                  IN IF remaining <= 0 THEN [r2 EXCEPT !.pc = "after"]
                     ELSE LET slice == IF value > remaining THEN remaining ELSE value
                              bytes == r.bytes + slice
                          IN [r2 EXCEPT !.bytes = bytes, !.slice = slice,
                                        !.decoded = @ + slice,
                                        !.pc = IF bytes >= r.limitBytes THEN "after" ELSE "loop"]

\* readTextUpTo(res, limitBytes) up to the loop
ReadStart ==
  /\ reader.pc = "start"
  /\ reader' = IF reader.stream = NoBody THEN [reader EXCEPT !.pc = "done", !.stream = <<>>]
               ELSE [reader EXCEPT !.pc = "loop"]
  /\ UNCHANGED <<env, data, loginFail, now, issued, inflight, resp, lastOp, served>>

ReadChunk ==
  /\ reader.pc = "loop"
  /\ reader' = Iterate(reader)
  /\ UNCHANGED <<env, data, loginFail, now, issued, inflight, resp, lastOp, served>>

\* decoder.decode(), reader.cancel(), return out
ReadEnd ==
  /\ reader.pc = "after"
  /\ reader' = [reader EXCEPT !.pc = "done", !.cancelled = TRUE]
  /\ UNCHANGED <<env, data, loginFail, now, issued, inflight, resp, lastOp, served>>

InitRead ==
  /\ env = [PASSWORD |-> "pw", SESSION_SECRET |-> ""]
  /\ data = EmptyDoc
  /\ loginFail = <<>>
  /\ now = 0
  /\ issued = {}
  /\ inflight = [p \in Procs |-> Idle]
  /\ resp = NoResp
  /\ lastOp = NoOp
  /\ served = 0
  /\ \E stream \in Streams, limitBytes \in Limits :
       reader = [NoReader EXCEPT !.pc = "start", !.stream = stream, !.limitBytes = limitBytes]

NextRead ==
  \/ ReadStart
  \/ ReadChunk
  \/ ReadEnd

SpecRead == InitRead /\ [][NextRead]_vars

\* C30: readTextUpTo(res, limitBytes) never decodes more than limitBytes
\* bytes of the body: after every pass of the loop the running byte count,
\* which is the number of bytes handed to the decoder, is at most
\* limitBytes; a chunk that would exceed the limit is cut to the remaining
\* allowance and a chunk that fits is decoded whole; and no chunk is read
\* once the count has reached limitBytes: a pass starts only below the
\* limit and the loop ends with the pass that reaches it.
C30_ReadIsCapped ==
  [][reader.pc = "loop" =>
       LET limit == reader.limitBytes
           allowance == limit - reader.bytes
           value == IF reader.stream = <<>> THEN 0 ELSE Head(reader.stream)
       IN /\ reader.bytes < limit
          /\ reader'.reads = reader.reads + 1
          /\ reader'.slice = Min(value, allowance)
          /\ reader'.bytes = reader.bytes + reader'.slice
          /\ reader'.decoded = reader'.bytes
          /\ reader'.bytes <= limit
          /\ reader'.bytes = limit => reader'.pc = "after"
          /\ reader'.pc = "after" => reader'.bytes = limit \/ reader.stream = <<>>]_vars

\* a body of 65536, 98305 and 1 bytes read up to 98304: the second chunk
\* was cut to 32768 bytes, the third was never read
C30_Witness ==
  /\ reader.pc = "done" /\ reader.cancelled
  /\ reader.limitBytes = MAX_READ_BYTES /\ reader.bytes = MAX_READ_BYTES
  /\ reader.slice = 32768 /\ reader.reads = 2 /\ reader.stream = <<1>>

====
